---- MODULE Spec2Model ----
(***************************************************************************)
(* Model of pyvista-imgui: the off-screen texture render target            *)
(* (VTKOpenGLTextureRenderWindow) and the GUI-to-VTK event translation     *)
(* (RendererBackendImguiBundle, RendererBackendPyImgui and the older       *)
(* VTKImguiRenderWindowInteractor), the embedding widget's render and the  *)
(* pivot camera controller (InteractorStylePivot).                         *)
(*                                                                         *)
(* Spec        drives one texture render target through render(size) and   *)
(*             close() calls; every GPU operation may raise.               *)
(* SpecEvents  drives process_events through GUI frames.                   *)
(* SpecKeys    counts the key events the engine gets over the frames.      *)
(* SpecButtons keeps the button events the engine gets over the frames.    *)
(* SpecWidget  drives the embedding widget's render(size) and close().     *)
(* SpecPivot   delivers mouse and character events to InteractorStylePivot.*)
(* SpecSetPivot calls _set_pivot on every small depth buffer.              *)
(* SpecCamera  moves the camera by wheel events, with the motion factors   *)
(*             of the base class and with a larger wheel factor.           *)
(* SpecDrag    moves the camera by pan and dolly drags and wheel events.   *)
(* SpecBackends loads and constructs the two backends with either GUI      *)
(*             package installed or not.                                   *)
(* SpecHost    runs ImguiPlotter.show and the host loop step by step.      *)
(***************************************************************************)
EXTENDS Integers, Sequences, FiniteSets, TLC

\* ------------------------------------------------------------------------
\* Bounds of the model
\* ------------------------------------------------------------------------

\* number of render()/close() calls made on the render target
MaxCalls == 4

\* number of renderers attached to the render window
NumRenderers == 2

\* ------------------------------------------------------------------------
\* Values
\* ------------------------------------------------------------------------

\* Python's None where the other values are integers (texture names are >= 0)
None == -1

\* render(size=None): the size argument left out
NoSize == << >>

\* Panel sizes are floats (imgui content regions).  A length is held as a
\* whole number of half pixels, so <<801, 600>> is the size (400.5, 300).
HalfPixels == 2

\* Python's int(): truncation towards zero
int(x) == IF x >= 0 THEN x \div HalfPixels ELSE -((-x) \div HalfPixels)

IntSize(size) == << int(size[1]), int(size[2]) >>

Px(w, h) == << w * HalfPixels, h * HalfPixels >>

\* the sizes the caller asks for: 400x300, 800x600, 400.5x300 and the
\* degenerate (0,0), (0,300), (400,0), (-5,600)
Sizes ==
    { Px(400, 300), Px(800, 600), << 801, 600 >>,
      Px(0, 0), Px(0, 300), Px(400, 0), Px(-5, 600) }

\* the viewport_size given to the constructor; (0, 0) is the default
InitialSizes == { Px(0, 0), Px(400, 300) }

Positive(size) == size[1] > 0 /\ size[2] > 0

\* The GPU operation that raises in a call, if any
Faults == { "none", "glDeleteTextures", "glGenTextures", "glTexImage2D",
            "glFramebufferTexture2D", "Render", "WaitForCompletion" }

VARIABLES
    target,     \* the VTKOpenGLTextureRenderWindow object's fields
    gl,         \* the OpenGL context: texture objects, framebuffer, queue
    calls,      \* the operations the last call invoked, in order
    error,      \* the GPU operation that raised in the last call, or "none"
    raised,     \* an exception has propagated to the caller of render
    history,    \* the calls made so far
    before,     \* what the caller could observe before the last call
    stats       \* counts kept for the properties

texVars == << target, gl, calls, error, raised, history, before, stats >>

VARIABLES
    io,         \* what the GUI reports in the current frame (imgui.get_io() and
                \* the is_window_*, is_key_* queries), with the held buttons/keys
    engine,     \* per implementation: the calls process_events made on the
                \* interactor in the current frame, in order
    evRaised,   \* per implementation: process_events ended with an exception
    phase,      \* "input": the GUI collects input; "processed": process_events ran
    nInputs     \* input events collected in the current frame

evVars == << io, engine, evRaised, phase, nInputs >>

VARIABLES
    received,   \* per key: the KeyPressEvent and KeyReleaseEvent calls the
                \* engine has got from the imgui_bundle backend over all frames
    dispatched, \* per backend and mouse button: the press and release events
                \* the engine has got over all frames, in order
    frames      \* frames counted so far

keyVars == << received, dispatched, frames >>

VARIABLES
    widget      \* the embedding widget (a RendererBackend): its GUI package and
                \* the steps of its last render call, in order

widgetVars == << widget >>

VARIABLES
    style,      \* the InteractorStylePivot object's fields
    scene,      \* the render window's depth buffer: pixel -> depth
    held,       \* the mouse buttons that are down
    handled     \* the event the style handled last, what _set_pivot returned in
                \* it and the style's fields before it

pivotVars == << style, scene, held, handled >>

VARIABLES
    loader,     \* the GUI packages installed, the backend modules loaded and
                \* the backends constructed
    host        \* ImguiPlotter.show: its caller, the host loop and its window

hostVars == << loader, host >>

\* the variables that neither the render target's nor the frame's actions change
restVars == << keyVars, widgetVars, pivotVars, hostVars >>

vars == << target, gl, calls, error, raised, history, before, stats,
           io, engine, evRaised, phase, nInputs,
           received, dispatched, frames, widget,
           style, scene, held, handled,
           loader, host >>

\* ------------------------------------------------------------------------
\* The OpenGL context
\* ------------------------------------------------------------------------

\* glGenTextures(1): a texture name not handed out before
glGenTextures(g) == Len(g.dims) + 1

\* A call works on s = [t, g, calls, raised, error]: the object, the OpenGL
\* context, the operations invoked so far, whether an exception is
\* propagating and the operation that raised.

\* `op` raises and nothing catches the exception
Raise(s, op) == [s EXCEPT !.calls = Append(@, op), !.raised = TRUE, !.error = op]

\* `op` raises inside try/except: pass
Caught(s, op) == [s EXCEPT !.calls = Append(@, op), !.error = op]

\* `op` returns
Did(s, op) == [s EXCEPT !.calls = Append(@, op)]

\* glDeleteTextures([name]): names that are not textures are ignored
DeleteTexture(g, name) ==
    [g EXCEPT !.alive = @ \ {name},
              !.deletes = [n \in DOMAIN @ |-> IF n = name THEN @[n] + 1 ELSE @[n]]]

\* _tex = glGenTextures(1): a new texture object without storage
GenTexture(g) ==
    [g EXCEPT !.alive = @ \cup {glGenTextures(g)},
              !.dims = Append(@, None),
              !.deletes = Append(@, 0)]

\* glTexImage2D(..., width, height, ...) on the bound texture
TexImage(g, name, w, h) == [g EXCEPT !.dims[name] = << w, h >>]

\* ------------------------------------------------------------------------
\* VTKOpenGLTextureRenderWindow
\* ------------------------------------------------------------------------

\* texture_id without the check of _first_render
texture_id_Unguarded(t) == t._tex

\* the texture_id property
texture_id(t) == IF t._first_render THEN None ELSE t._tex

\* the skip taken on the first render too
SkipResize_FirstRenderToo(t, new_size) ==
    \/ (t.viewport_size[1] = new_size[1] /\ t.viewport_size[2] = new_size[2])
    \/ new_size[1] <= 0
    \/ new_size[2] <= 0

\* set_viewport_size: "skip if nothing has changed"
SkipResize(t, new_size) ==
    /\ \/ (t.viewport_size[1] = new_size[1] /\ t.viewport_size[2] = new_size[2])
       \/ new_size[1] <= 0
       \/ new_size[2] <= 0
    /\ ~t._first_render

\* the release of the previous texture wrapped in try/except: pass, as close()
\* wraps it
ReleasePrevious_Swallowed(s, fault) ==
    IF s.raised \/ s.t._first_render THEN s
    ELSE IF fault = "glDeleteTextures" THEN Caught(s, "glDeleteTextures")
    ELSE [Did(s, "glDeleteTextures") EXCEPT !.g = DeleteTexture(@, s.t._tex)]

\* set_viewport_size, the release of the previous texture
ReleasePrevious(s, fault) ==
    IF s.raised \/ s.t._first_render THEN s
    ELSE IF fault = "glDeleteTextures" THEN Raise(s, "glDeleteTextures")
    ELSE [Did(s, "glDeleteTextures") EXCEPT !.g = DeleteTexture(@, s.t._tex)]

\* set_viewport_size, the creation of the texture to render into
CreateTexture(s, fault) ==
    IF s.raised THEN s
    ELSE IF fault = "glGenTextures" THEN Raise(s, "glGenTextures")
    ELSE LET name == glGenTextures(s.g)
             s1 == [Did(s, "glGenTextures") EXCEPT !.t._tex = name,
                                                  !.g = GenTexture(@)]
         IN IF fault = "glTexImage2D" THEN Raise(s1, "glTexImage2D")
            ELSE [Did(s1, "glTexImage2D") EXCEPT
                     !.g = TexImage(@, name, int(s.t.viewport_size[1]),
                                            int(s.t.viewport_size[2]))]

\* set_viewport_size, renderer.ResetCamera() for every renderer
ResetCameras(s) ==
    IF s.raised THEN s
    ELSE [s EXCEPT !.calls = @ \o [i \in 1..NumRenderers |-> "ResetCamera"]]

\* set_viewport_size, the attachment of the texture to the framebuffer
UseTexture(s, fault) ==
    IF s.raised THEN s
    ELSE IF fault = "glFramebufferTexture2D" THEN Raise(s, "glFramebufferTexture2D")
    ELSE [Did(s, "glFramebufferTexture2D") EXCEPT !.g.attached = s.t._tex]

set_viewport_size(s, new_size, fault) ==
    IF SkipResize(s.t, new_size) THEN s
    ELSE LET s1 == [Did(s, "SetSize") EXCEPT !.t.viewport_size = new_size,
                                            !.t.rw_size = IntSize(new_size)]
             s2 == ReleasePrevious(s1, fault)
             s3 == CreateTexture(s2, fault)
             s4 == ResetCameras(s3)
             s5 == UseTexture(s4, fault)
         IN IF s5.raised THEN s5 ELSE [s5 EXCEPT !.t._first_render = FALSE]

\* render, the render_window.Render() call: draws into the attached texture
DrawCall(s, fault) ==
    IF s.raised THEN s
    ELSE IF fault = "Render" THEN Raise(s, "Render")
    ELSE [Did(s, "Render") EXCEPT !.g.pending = TRUE]

\* render returning right after the draw call
WaitForCompletion_Skipped(s, fault) == s

\* render, the render_window.WaitForCompletion() call
WaitForCompletion(s, fault) ==
    IF s.raised THEN s
    ELSE IF fault = "WaitForCompletion" THEN Raise(s, "WaitForCompletion")
    ELSE [Did(s, "WaitForCompletion") EXCEPT !.g.pending = FALSE]

\* render(size)
render(s, size, fault) ==
    LET sz == IF size = NoSize THEN s.t.viewport_size ELSE size
    IN WaitForCompletion(DrawCall(set_viewport_size(s, sz, fault), fault), fault)

\* close(): the error of the texture release is caught and dropped
close(s, fault) ==
    LET s1 == IF s.t._tex # 0
              THEN IF fault = "glDeleteTextures"
                   THEN Caught(s, "glDeleteTextures")
                   ELSE [Did(s, "glDeleteTextures") EXCEPT
                            !.g = DeleteTexture(@, s.t._tex)]
              ELSE s
    IN [s1 EXCEPT !.t._first_render = TRUE]

\* ------------------------------------------------------------------------
\* The render target driven by its caller
\* ------------------------------------------------------------------------

\* what the caller can observe of the render target and the GPU
Observed == [ texture_id |-> texture_id(target),
              viewport_size |-> target.viewport_size,
              rw_size |-> target.rw_size,
              alive |-> gl.alive,
              attached |-> gl.attached,
              first_render |-> target._first_render,
              raised |-> raised ]

\* the state a call starts from
Entry == [ t |-> target, g |-> gl, calls |-> << >>, raised |-> FALSE,
           error |-> "none" ]

\* a call that asks for a size positive in both dimensions which is not the
\* positive size asked for last
IsTransition(sz) == Positive(sz) /\ sz # stats.lastPositive

\* the counts after a call that ended in state s: textures generated so far,
\* positive-size transitions, the last positive size asked for, and render
\* calls that returned
NewStats(s, sz, isRender) ==
    [ allocations |-> Len(s.g.dims),
      transitions |-> stats.transitions
                        + (IF isRender /\ IsTransition(sz) THEN 1 ELSE 0),
      lastPositive |-> IF isRender /\ Positive(sz) THEN sz ELSE stats.lastPositive,
      completed |-> stats.completed + (IF isRender /\ ~s.raised THEN 1 ELSE 0) ]

TexInit(sizes) ==
    /\ \E vs \in sizes :
          target = [ _tex |-> 0, _first_render |-> TRUE,
                     viewport_size |-> vs, rw_size |-> IntSize(vs) ]
    /\ gl = [ alive |-> {}, dims |-> << >>, deletes |-> << >>,
              attached |-> 0, pending |-> FALSE ]
    /\ calls = << >>
    /\ error = "none"
    /\ raised = FALSE
    /\ history = << >>
    /\ before = [ texture_id |-> None, viewport_size |-> target.viewport_size,
                  rw_size |-> target.rw_size, alive |-> {}, attached |-> 0,
                  first_render |-> TRUE, raised |-> FALSE ]
    /\ stats = [ allocations |-> 0, transitions |-> 0, lastPositive |-> NoSize,
                 completed |-> 0 ]

\* The caller calls render(size).  `fault` names the GPU operation that raises
\* when this call invokes it ("none": every operation returns); a fault on an
\* operation the call does not invoke is the same call as with "none".  An
\* exception leaves the frame loop: no render call follows it.
Render(size, fault) ==
    /\ ~raised
    /\ Len(history) < MaxCalls
    /\ LET s == render(Entry, size, fault)
           sz == IF size = NoSize THEN target.viewport_size ELSE size
       IN /\ fault = "none" \/ s.error # "none"
          /\ target' = s.t
          /\ gl' = s.g
          /\ calls' = s.calls
          /\ error' = s.error
          /\ raised' = s.raised
          /\ stats' = NewStats(s, sz, TRUE)
          /\ history' = Append(history, [op |-> "render", arg |-> size,
                                         size |-> sz, fault |-> fault])
    /\ before' = Observed

\* The caller, or __del__, calls close().
Close(fault) ==
    /\ Len(history) < MaxCalls
    /\ LET s == close(Entry, fault)
       IN /\ fault = "none" \/ s.error # "none"
          /\ target' = s.t
          /\ gl' = s.g
          /\ calls' = s.calls
          /\ error' = s.error
          /\ raised' = (raised \/ s.raised)
          /\ stats' = NewStats(s, NoSize, FALSE)
          /\ history' = Append(history, [op |-> "close", arg |-> NoSize,
                                         size |-> NoSize, fault |-> fault])
    /\ before' = Observed

RenderAny ==
    /\ \E size \in Sizes \cup {NoSize} : \E fault \in Faults : Render(size, fault)
    /\ UNCHANGED << evVars, restVars >>

CloseAny ==
    /\ \E fault \in {"none", "glDeleteTextures"} : Close(fault)
    /\ UNCHANGED << evVars, restVars >>

\* ------------------------------------------------------------------------
\* The GUI's input state
\* ------------------------------------------------------------------------

\* number of input events the GUI collects in one frame
MaxInputs == 2

Buttons == << "Left", "Right", "Middle" >>

ButtonSet == { Buttons[i] : i \in 1..Len(Buttons) }

\* Keys of the named-key range, in the order of their values: "tab" and "f"
\* are in _keysyms, "apostrophe" is not, "mouse_left" is in _ignore_keys
NamedKeys == << "tab", "f", "apostrophe", "mouse_left" >>

KeySet == { NamedKeys[i] : i \in 1..Len(NamedKeys) }

\* imgui.get_cursor_start_pos(), in half pixels
ViewportPos == Px(8, 8)

\* the pointer, a number of half pixels right of and below the image's corner
At(dx, dy) == << ViewportPos[1] + dx, ViewportPos[2] + dy >>

\* 3.5 pixels
Inside == 3 * HalfPixels + 1

\* what a frame finds: the pointer 2 px left of the image, half a pixel left
\* of it, 2 px above it or inside it, and the modifier keys
Pointers ==
    { [pos |-> At(-2 * HalfPixels, Inside), ctrl |-> FALSE, shift |-> FALSE],
      [pos |-> At(-1, Inside), ctrl |-> FALSE, shift |-> TRUE],
      [pos |-> At(Inside, -2 * HalfPixels), ctrl |-> TRUE, shift |-> FALSE],
      [pos |-> At(Inside, Inside), ctrl |-> TRUE, shift |-> TRUE] }

\* the implementations of process_events: the two backends, and the older
\* VTKImguiRenderWindowInteractor with either GUI package
Impls == { "imgui_bundle", "pyimgui", "interactor_imgui_bundle", "interactor_pyimgui" }

\* the two registered backends, RendererBackendImguiBundle and
\* RendererBackendPyImgui
Backends == { "imgui_bundle", "pyimgui" }

EvInit ==
    /\ io = [ hovered |-> FALSE, focused |-> FALSE,
              mouse_pos |-> At(Inside, Inside), key_ctrl |-> FALSE, key_shift |-> FALSE,
              mouse_down |-> {}, mouse_clicked |-> {}, mouse_released |-> {},
              mouse_double_clicked |-> {}, mouse_wheel |-> 0,
              keys_down |-> {}, key_pressed |-> {}, key_released |-> {} ]
    /\ engine = [i \in Impls |-> << >>]
    /\ evRaised = [i \in Impls |-> FALSE]
    /\ phase = "processed"
    /\ nInputs = 0

\* ------------------------------------------------------------------------
\* Event translation
\* ------------------------------------------------------------------------

\* the engine calls
SetEventInformationFlipY(x, y, ctrl, shift, keycode, repeat, keysym) ==
    [ call |-> "SetEventInformationFlipY", event |-> "",
      x |-> x, y |-> y, ctrl |-> ctrl, shift |-> shift,
      keycode |-> keycode, repeat |-> repeat, keysym |-> keysym ]

EngineCall(name, event) ==
    [ call |-> name, event |-> event,
      x |-> 0, y |-> 0, ctrl |-> FALSE, shift |-> FALSE,
      keycode |-> "", repeat |-> 0, keysym |-> "" ]

InvokeEvent(event) == EngineCall("InvokeEvent", event)

\* Python's None as a key symbol or character, and chr(0)
NoSym == "None"

Chr0 == "\\0"

\* _keysyms: key -> (keysym, keychar); keys that are not in the table raise
\* KeyError
HasKeysym(k) == k \in {"tab", "f"}

Keysym(k) == IF k = "tab" THEN << "Tab", NoSym >> ELSE << "f", "f" >>

_ignore_keys == { "mouse_left" }

\* xpos = int(io.mouse_pos.x - viewport_pos.x), ypos likewise
RelativePos(g) ==
    << int(g.mouse_pos[1] - ViewportPos[1]), int(g.mouse_pos[2] - ViewportPos[2]) >>

\* the guard with one "not" lost
NotFocusedNotHovered_ButHovered(g) == ~g.focused /\ g.hovered

\* "do nothing as long as the mouse pointer is not within the current window
\* or it is not focussed"
NotFocusedNotHovered(g) == ~g.focused /\ ~g.hovered

\* if xpos < 0 or ypos < 0: return
OutsideImage(pos) == pos[1] < 0 \/ pos[2] < 0

\* the repeat count looking at the left button only
Repeat_LeftOnly(g) == IF "Left" \in g.mouse_double_clicked THEN 1 ELSE 0

\* repeat = 1 if a button is double-clicked (imgui_bundle backend)
Repeat(g) == IF g.mouse_double_clicked # {} THEN 1 ELSE 0

\* the button chains tested in the order middle, right, left
FirstButton_MiddleFirst(set, suffix) ==
    IF "Middle" \in set THEN << InvokeEvent("MiddleButton" \o suffix) >>
    ELSE IF "Right" \in set THEN << InvokeEvent("RightButton" \o suffix) >>
    ELSE IF "Left" \in set THEN << InvokeEvent("LeftButton" \o suffix) >>
    ELSE << >>

\* the first button of Left, Right, Middle that is in the set, as a sequence
\* of at most one event
FirstButton(set, suffix) ==
    IF "Left" \in set THEN << InvokeEvent("LeftButton" \o suffix) >>
    ELSE IF "Right" \in set THEN << InvokeEvent("RightButton" \o suffix) >>
    ELSE IF "Middle" \in set THEN << InvokeEvent("MiddleButton" \o suffix) >>
    ELSE << >>

\* the mouse events with the pointer-moved event dispatched first
_process_mouse_events_MoveFirst(g) ==
    LET pressed ==
            IF ~g.hovered THEN << >>
            ELSE IF g.mouse_clicked # {} THEN FirstButton(g.mouse_clicked, "PressEvent")
            ELSE IF g.mouse_wheel > 0 THEN << InvokeEvent("MouseWheelForwardEvent") >>
            ELSE IF g.mouse_wheel < 0 THEN << InvokeEvent("MouseWheelBackwardEvent") >>
            ELSE << >>
    IN << InvokeEvent("MouseMoveEvent") >>
           \o pressed \o FirstButton(g.mouse_released, "ReleaseEvent")

\* RendererBackendImguiBundle._process_mouse_events
_process_mouse_events(g) ==
    LET pressed ==
            IF ~g.hovered THEN << >>
            ELSE IF g.mouse_clicked # {} THEN FirstButton(g.mouse_clicked, "PressEvent")
            ELSE IF g.mouse_wheel > 0 THEN << InvokeEvent("MouseWheelForwardEvent") >>
            ELSE IF g.mouse_wheel < 0 THEN << InvokeEvent("MouseWheelBackwardEvent") >>
            ELSE << >>
    IN pressed \o FirstButton(g.mouse_released, "ReleaseEvent")
               \o << InvokeEvent("MouseMoveEvent") >>

\* RendererBackendPyImgui._process_mouse_events
PyImgui_process_mouse_events(g) ==
    LET pressed ==
            IF ~g.hovered THEN << >>
            ELSE IF g.mouse_clicked # {} THEN FirstButton(g.mouse_clicked, "PressEvent")
            ELSE IF g.mouse_wheel > 0 THEN << InvokeEvent("MouseWheelForwardEvent") >>
            ELSE IF g.mouse_wheel < 0 THEN << InvokeEvent("MouseWheelBackwardEvent") >>
            ELSE << >>
    IN pressed \o FirstButton(g.mouse_released, "ReleaseEvent")
               \o << InvokeEvent("MouseMoveEvent") >>

\* VTKImguiRenderWindowInteractor._process_events_pyimgui
_process_events_pyimgui(g) ==
    LET pressed ==
            IF ~g.hovered THEN << >>
            ELSE IF g.mouse_clicked # {} THEN FirstButton(g.mouse_clicked, "PressEvent")
            ELSE IF g.mouse_wheel > 0 THEN << InvokeEvent("MouseWheelForwardEvent") >>
            ELSE IF g.mouse_wheel < 0 THEN << InvokeEvent("MouseWheelBackwardEvent") >>
            ELSE << >>
    IN pressed \o FirstButton(g.mouse_released, "ReleaseEvent")
               \o << InvokeEvent("MouseMoveEvent") >>

\* the loop body with a key that is not in the table skipped
KeyEvents_DropUnmapped(g, k, pos) ==
    IF k \in _ignore_keys \/ ~HasKeysym(k) THEN << >>
    ELSE IF k \in g.key_pressed \/ k \in g.key_released
    THEN << SetEventInformationFlipY(pos[1], pos[2], g.key_ctrl, g.key_shift,
                                     IF Keysym(k)[2] = NoSym THEN Chr0 ELSE Keysym(k)[2],
                                     0, Keysym(k)[1]) >>
            \o (IF k \in g.key_pressed
                THEN << EngineCall("KeyPressEvent", ""), EngineCall("CharEvent", "") >>
                ELSE << EngineCall("KeyReleaseEvent", "") >>)
    ELSE << >>

\* RendererBackendImguiBundle._process_keyboard_events, one key of the loop
KeyEvents(g, k, pos) ==
    IF k \in _ignore_keys THEN << >>
    ELSE IF k \in g.key_pressed \/ k \in g.key_released
    THEN LET keysym == IF HasKeysym(k) THEN Keysym(k)[1] ELSE NoSym
             keychar == IF HasKeysym(k) THEN Keysym(k)[2] ELSE NoSym
             char == IF keychar = NoSym THEN Chr0 ELSE keychar
         IN << SetEventInformationFlipY(pos[1], pos[2], g.key_ctrl, g.key_shift,
                                        char, 0, keysym) >>
            \o (IF k \in g.key_pressed
                THEN << EngineCall("KeyPressEvent", ""), EngineCall("CharEvent", "") >>
                ELSE << EngineCall("KeyReleaseEvent", "") >>)
    ELSE << >>

RECURSIVE KeyLoop(_, _, _)
KeyLoop(g, i, pos) ==
    IF i > Len(NamedKeys) THEN << >>
    ELSE KeyEvents(g, NamedKeys[i], pos) \o KeyLoop(g, i + 1, pos)

\* the keyboard loop run whether the widget is hovered or not
_process_keyboard_events_Ungated(g, pos) == KeyLoop(g, 1, pos)

\* RendererBackendImguiBundle._process_keyboard_events
_process_keyboard_events(g, pos) ==
    IF g.hovered THEN KeyLoop(g, 1, pos) ELSE << >>

Returned(seq) == [calls |-> seq, raised |-> FALSE]

\* RendererBackendImguiBundle.process_events
ImguiBundle_process_events(g) ==
    IF NotFocusedNotHovered(g) THEN Returned(<< >>)
    ELSE LET pos == RelativePos(g)
         IN IF OutsideImage(pos) THEN Returned(<< >>)
            ELSE Returned(
                   << SetEventInformationFlipY(pos[1], pos[2], g.key_ctrl, g.key_shift,
                                               Chr0, Repeat(g), NoSym) >>
                   \o _process_mouse_events(g)
                   \o _process_keyboard_events(g, pos))

\* RendererBackendPyImgui.process_events: no double clicks, no keyboard events
PyImgui_process_events(g) ==
    IF NotFocusedNotHovered(g) THEN Returned(<< >>)
    ELSE LET pos == RelativePos(g)
         IN IF OutsideImage(pos) THEN Returned(<< >>)
            ELSE Returned(
                   << SetEventInformationFlipY(pos[1], pos[2], g.key_ctrl, g.key_shift,
                                               Chr0, 0, NoSym) >>
                   \o PyImgui_process_mouse_events(g))

\* VTKImguiRenderWindowInteractor.process_events.  With imgui_bundle it calls
\* _process_events_imgui_bundle(io, xpos, ypos, ctrl, shift), a method of one
\* parameter: the call raises TypeError.
Interactor_process_events(g, bundle) ==
    IF NotFocusedNotHovered(g) THEN Returned(<< >>)
    ELSE LET pos == RelativePos(g)
             first == << SetEventInformationFlipY(pos[1], pos[2], g.key_ctrl,
                                                  g.key_shift, Chr0, Repeat(g), NoSym) >>
         IN IF bundle THEN [calls |-> first, raised |-> TRUE]
            ELSE Returned(first \o _process_events_pyimgui(g))

process_events(impl, g) ==
    CASE impl = "imgui_bundle" -> ImguiBundle_process_events(g)
      [] impl = "pyimgui" -> PyImgui_process_events(g)
      [] impl = "interactor_imgui_bundle" -> Interactor_process_events(g, TRUE)
      [] impl = "interactor_pyimgui" -> Interactor_process_events(g, FALSE)

\* ------------------------------------------------------------------------
\* The GUI frames
\* ------------------------------------------------------------------------

\* imgui.new_frame(): the transitions of the frame before are gone; the frame
\* finds the window hovered or not, focused or not, and the pointer somewhere
NewFrame ==
    /\ phase = "processed"
    /\ \E h \in BOOLEAN, f \in BOOLEAN, p \in Pointers :
          io' = [io EXCEPT !.hovered = h, !.focused = f,
                           !.mouse_pos = p.pos, !.key_ctrl = p.ctrl,
                           !.key_shift = p.shift,
                           !.mouse_clicked = {}, !.mouse_released = {},
                           !.mouse_double_clicked = {}, !.mouse_wheel = 0,
                           !.key_pressed = {}, !.key_released = {}]
    /\ engine' = [i \in Impls |-> << >>]
    /\ phase' = "input"
    /\ nInputs' = 0
    /\ UNCHANGED << evRaised, texVars, restVars >>

Input(g) ==
    /\ phase = "input"
    /\ nInputs < MaxInputs
    /\ io' = g
    /\ nInputs' = nInputs + 1
    /\ UNCHANGED << engine, evRaised, phase, texVars, restVars >>

\* a button goes down, as a click or as the second click of a double click
MouseDown ==
    \E b \in ButtonSet \ io.mouse_down, dbl \in BOOLEAN :
        Input([io EXCEPT !.mouse_down = @ \cup {b},
                         !.mouse_clicked = @ \cup {b},
                         !.mouse_double_clicked = IF dbl THEN @ \cup {b} ELSE @])

MouseUp ==
    \E b \in io.mouse_down :
        Input([io EXCEPT !.mouse_down = @ \ {b}, !.mouse_released = @ \cup {b}])

MouseWheel ==
    \E d \in {-1, 1} :
        /\ io.mouse_wheel = 0
        /\ Input([io EXCEPT !.mouse_wheel = d])

KeyDown ==
    \E k \in KeySet \ io.keys_down :
        Input([io EXCEPT !.keys_down = @ \cup {k}, !.key_pressed = @ \cup {k}])

\* is_key_pressed(k) is also true when a held key repeats
KeyRepeat ==
    \E k \in io.keys_down \ io.key_pressed :
        Input([io EXCEPT !.key_pressed = @ \cup {k}])

KeyUp ==
    \E k \in io.keys_down :
        Input([io EXCEPT !.keys_down = @ \ {k}, !.key_released = @ \cup {k}])

\* the widget's render calls process_events once in the frame
ProcessEvents ==
    /\ phase = "input"
    /\ engine' = [i \in Impls |-> process_events(i, io).calls]
    /\ evRaised' = [i \in Impls |-> process_events(i, io).raised]
    /\ phase' = "processed"
    /\ UNCHANGED << io, nInputs, texVars, restVars >>

\* ------------------------------------------------------------------------
\* Key events over the frames
\* ------------------------------------------------------------------------

\* number of frames whose key events are counted
MaxFrames == 3

\* the keys whose events reach the engine
ListenedKeys == KeySet \ _ignore_keys

KeyInit ==
    /\ received = [k \in ListenedKeys |-> [press |-> 0, release |-> 0]]
    /\ dispatched = [i \in Backends |-> [b \in ButtonSet |-> << >>]]
    /\ frames = 0

\* the per-key position updates among the calls, for the key's symbol and
\* character, that are followed by the event
KeyCalls(seq, k, event) ==
    LET keysym == IF HasKeysym(k) THEN Keysym(k)[1] ELSE NoSym
        keychar == IF HasKeysym(k) /\ Keysym(k)[2] # NoSym THEN Keysym(k)[2] ELSE Chr0
    IN { n \in 2..(Len(seq) - 1) :
            /\ seq[n].call = "SetEventInformationFlipY"
            /\ seq[n].keysym = keysym /\ seq[n].keycode = keychar
            /\ seq[n+1].call = event }

\* the press and release events of one button among the calls of a frame, in
\* the order of the calls
ButtonCalls(seq, b) ==
    LET RECURSIVE Pick(_)
        Pick(n) ==
            IF n > Len(seq) THEN << >>
            ELSE IF seq[n].call = "InvokeEvent" /\ seq[n].event = b \o "ButtonPressEvent"
                 THEN << "press" >> \o Pick(n + 1)
            ELSE IF seq[n].call = "InvokeEvent" /\ seq[n].event = b \o "ButtonReleaseEvent"
                 THEN << "release" >> \o Pick(n + 1)
            ELSE Pick(n + 1)
    IN Pick(1)

\* the frame's process_events, with the engine counting the key events it gets
\* from the imgui_bundle backend and keeping the button events it gets from
\* either backend
ProcessEventsCounted ==
    /\ phase = "input"
    /\ frames < MaxFrames
    /\ engine' = [i \in Impls |-> process_events(i, io).calls]
    /\ evRaised' = [i \in Impls |-> process_events(i, io).raised]
    /\ phase' = "processed"
    /\ received' =
          [k \in ListenedKeys |->
             LET seq == process_events("imgui_bundle", io).calls
             IN [press |-> received[k].press
                             + Cardinality(KeyCalls(seq, k, "KeyPressEvent")),
                 release |-> received[k].release
                             + Cardinality(KeyCalls(seq, k, "KeyReleaseEvent"))]]
    /\ dispatched' =
          [i \in Backends |->
             [b \in ButtonSet |->
                dispatched[i][b] \o ButtonCalls(process_events(i, io).calls, b)]]
    /\ frames' = frames + 1
    /\ UNCHANGED << io, nInputs, texVars, widgetVars, pivotVars, hostVars >>

\* ------------------------------------------------------------------------
\* The embedding widget
\* ------------------------------------------------------------------------

\* a step of the widget's render: a call with the size or the texture handle
\* it is given
Step(name, size, handle) == [step |-> name, size |-> size, handle |-> handle]

\* the widget's image and events with process_events called before the image
\* is drawn
ShowImage_EventsFirst(backend, size, handle) ==
    << Step("push_style_var", NoSize, None),
       Step("begin_child", size, None),
       Step("process_events", NoSize, None),
       Step("image", NoSize, handle),
       Step("end_child", NoSize, None),
       Step("pop_style_var", NoSize, None) >>

\* render, after the interactor is resized: the child window with the image
\* of the texture, then process_events
ShowImage(backend, size, handle) ==
    << Step("push_style_var", NoSize, None),
       Step("begin_child", size, None),
       Step("image", NoSize, handle),
       Step("process_events", NoSize, None),
       Step("end_child", NoSize, None),
       Step("pop_style_var", NoSize, None) >>

\* render, the resize of the interactor; RendererBackendImguiBundle also
\* sends a ConfigureEvent
ResizeInteractor(backend, size) ==
    << Step("interactor.SetSize", IntSize(size), None) >>
    \o (IF backend = "imgui_bundle"
        THEN << Step("interactor.ConfigureEvent", NoSize, None) >>
        ELSE << >>)

\* RendererBackend.render(size) where the content region is `avail` and
\* render_window.render ends in state s: an exception of render_window.render
\* ends the call
WidgetSteps(backend, arg, avail, s) ==
    LET size == IF arg = NoSize THEN avail ELSE arg
        query == IF arg = NoSize
                 THEN << Step("get_content_region_avail", avail, None) >>
                 ELSE << >>
    IN query \o << Step("render_window.render", size, None) >>
             \o (IF s.raised THEN << >>
                 ELSE ResizeInteractor(backend, size)
                      \o ShowImage(backend, size, texture_id(s.t)))

WidgetInit(backends) ==
    \E b \in backends :
        widget = [ backend |-> b, arg |-> NoSize, avail |-> NoSize,
                   steps |-> << >>, raised |-> FALSE ]

\* the GUI loop calls the widget's render(size) in a frame; size None is
\* render() taking the available content region
WidgetRender(arg, avail, fault) ==
    LET size == IF arg = NoSize THEN avail ELSE arg
        s == render(Entry, size, fault)
    IN /\ Render(size, fault)
       /\ widget' = [widget EXCEPT !.arg = arg, !.avail = avail,
                                   !.steps = WidgetSteps(widget.backend, arg, avail, s),
                                   !.raised = s.raised]
       /\ engine' = IF s.raised THEN engine
                    ELSE [engine EXCEPT ![widget.backend] =
                                            process_events(widget.backend, io).calls]
       /\ evRaised' = IF s.raised THEN evRaised
                      ELSE [evRaised EXCEPT ![widget.backend] =
                                                process_events(widget.backend, io).raised]
       /\ UNCHANGED << io, phase, nInputs, keyVars, pivotVars, hostVars >>

\* the sizes the widget's caller passes to render(size)
PanelSizes == { Px(400, 300), Px(800, 600), Px(0, 0), Px(-5, 600) }

\* the content regions render() finds: 400x300, 400.5x300 and a panel
\* collapsed to no width
Regions == { Px(400, 300), << 801, 600 >>, Px(0, 300) }

WidgetRenderAny ==
    \E fault \in Faults :
        \/ \E arg \in PanelSizes : WidgetRender(arg, NoSize, fault)
        \/ \E avail \in Regions : WidgetRender(NoSize, avail, fault)

\* ------------------------------------------------------------------------
\* InteractorStylePivot
\* ------------------------------------------------------------------------

\* the pixels of the render window
Columns == 0..3

Rows == 0..2

Pixels == Columns \X Rows

\* depth-buffer values in tenths: 10 is 1.0, the far plane
FarPlane == 10

DepthValues == { 4, 7, FarPlane }

\* extent = int(np.ceil(self.tolerance * diagonal_len)): with tolerance 0.002
\* and a window diagonal of up to 500 pixels the window reaches one pixel to
\* each side
Extent == 1

\* the event positions whose depth window lies inside the render window
EventPositions == { << 1, 1 >>, << 2, 1 >> }

\* the samples of the window as np.nonzero lists them: row by row of
\* data = vtk_to_numpy(vfa).reshape(size, size) - 1.0, where GetZbufferData
\* has filled vfa line by line from the bottom, x running fastest
WindowIndices ==
    [ n \in 1..((2 * Extent + 1) * (2 * Extent + 1)) |->
        << (n - 1) \div (2 * Extent + 1), (n - 1) % (2 * Extent + 1) >> ]

\* data[row][col]: the depth of the pixel, less 1.0
Data(sc, event_pos, idx) ==
    sc[<< event_pos[1] - Extent + idx[2], event_pos[2] - Extent + idx[1] >>] - FarPlane

\* the places in WindowIndices of the samples that are not at the far plane
NonZero(sc, event_pos) ==
    { n \in DOMAIN WindowIndices : Data(sc, event_pos, WindowIndices[n]) # 0 }

\* distances_total of a sample
DistanceTotal(sc, event_pos, idx) ==
    Data(sc, event_pos, idx)
        * ((idx[1] - Extent) * (idx[1] - Extent) + (idx[2] - Extent) * (idx[2] - Extent)
           + 1 + 100)

\* np.argmin: the first of the samples with the least distances_total
ArgMin(sc, event_pos) ==
    CHOOSE n \in NonZero(sc, event_pos) :
        \A m \in NonZero(sc, event_pos) :
            LET dn == DistanceTotal(sc, event_pos, WindowIndices[n])
                dm == DistanceTotal(sc, event_pos, WindowIndices[m])
            IN dn < dm \/ (dn = dm /\ n <= m)

\* ComputeDisplayToWorld: the world point is named by the display point
\* (x, y, depth) it is the unprojection of
DisplayToWorld(x, y, z) == << x, y, z >>

\* the dolly steps after which the camera stands still: its coordinates are
\* kept in Fine-ths of a world unit, and a wheel step of the default motion
\* factors moves it by a fifth of its distance to the pivot
MaxDolly == 2

RECURSIVE Pow(_, _)
Pow(b, n) == IF n = 0 THEN 1 ELSE b * Pow(b, n - 1)

Fine == Pow(5, MaxDolly)

\* a world point in the camera's units
InFine(p) == << p[1] * Fine, p[2] * Fine, p[3] * Fine >>

Plus(a, b) == << a[1] + b[1], a[2] + b[2], a[3] + b[3] >>

Minus(a, b) == << a[1] - b[1], a[2] - b[2], a[3] - b[3] >>

\* the vector v * num / den
Scaled(v, num, den) ==
    << (v[1] * num) \div den, (v[2] * num) \div den, (v[3] * num) \div den >>

\* the renderer's active camera, in front of the display plane and looking
\* at it along z with the view up along y; view_angle is GetViewAngle() in
\* degrees
NewCamera(parallel, view_angle) ==
    [ position |-> InFine(<< 1, 1, -1 >>), focal_point |-> InFine(<< 1, 1, 5 >>),
      parallel |-> parallel, view_angle |-> view_angle ]

\* np.tan(view_angle / 2) of the view angles in use: 1 at 90 degrees, and
\* less than the camera's unit can hold at the least view angle
TanHalf(view_angle) == IF view_angle = 90 THEN 1 ELSE 0

\* what the style is set up with: GetMotionFactor() and
\* GetMouseWheelMotionFactor(), and the camera's GetParallelProjection() and
\* GetViewAngle()
Rig(motion_factor, wheel_factor, parallel, view_angle) ==
    [ motion_factor |-> motion_factor, wheel_factor |-> wheel_factor,
      parallel |-> parallel, view_angle |-> view_angle ]

\* a style whose motion factor of 0 and whose camera's least view angle keep
\* the camera where it is
StillRig == Rig(0, 1, FALSE, 0)

\* the base class's motion factor of 10.0 and wheel motion factor of 1.0,
\* and a wheel motion factor of 10.0 set by SetMouseWheelMotionFactor; the
\* camera's view angle is 90 degrees
Rigs == { Rig(10, wf, parallel, 90) : wf \in {1, 10}, parallel \in BOOLEAN }

\* _set_pivot reporting success without a look at the samples
_set_pivot_AlwaysTrue(st, sc, event_pos) == [ st |-> st, ret |-> TRUE ]

\* _set_pivot(event_pos): the style after the call and the value returned
_set_pivot(st, sc, event_pos) ==
    IF NonZero(sc, event_pos) # {}
    THEN LET nearest_index == WindowIndices[ArgMin(sc, event_pos)]
             x == event_pos[1] - Extent + nearest_index[1]
             y == event_pos[2] - Extent + nearest_index[2]
             z == Data(sc, event_pos, nearest_index) + FarPlane
         IN [ st |-> [st EXCEPT !.pivot = DisplayToWorld(x, y, z)], ret |-> TRUE ]
    ELSE [ st |-> st, ret |-> FALSE ]

\* the observers of a style: those registered with the interactor style, and
\* the list self._observers of the ones remove_observers gives up
NoObservers == [ registered |-> {}, _observers |-> {} ]

\* self.add_observer(event, callback), a method of the base class made by
\* _style_factory; tracked: it notes the observer in self._observers, as
\* the constructor of that base class does with its own two observers
add_observer(obs, event, tracked) ==
    [ registered |-> obs.registered \cup {event},
      _observers |-> IF tracked THEN obs._observers \cup {event} ELSE obs._observers ]

\* remove_observers: RemoveObserver for every entry of self._observers
remove_observers(obs) ==
    [obs EXCEPT !.registered = @ \ obs._observers]

\* the events __init__ registers handlers for after remove_observers()
StyleEvents ==
    << "LeftButtonPressEvent", "LeftButtonReleaseEvent", "RightButtonPressEvent",
       "RightButtonReleaseEvent", "MouseMoveEvent", "MiddleButtonPressEvent",
       "MiddleButtonReleaseEvent", "MouseWheelForwardEvent", "MouseWheelBackwardEvent" >>

RECURSIVE AddObservers(_, _, _)
AddObservers(obs, n, tracked) ==
    IF n = 0 THEN obs
    ELSE add_observer(AddObservers(obs, n - 1, tracked), StyleEvents[n], tracked)

\* the observers after InteractorStylePivot.__init__: the constructor of the
\* base class, DefaultInteractorKeybindsMixin.__init__ registering
\* on_char_event, remove_observers(), and the handlers of StyleEvents
__init__(tracked) ==
    LET base == add_observer(add_observer(NoObservers, "LeftButtonPressEvent", TRUE),
                             "LeftButtonReleaseEvent", TRUE)
        mixin == add_observer(base, "CharEvent", tracked)
    IN AddObservers(remove_observers(mixin), Len(StyleEvents), tracked)

\* whether on_char_event is an observer of a constructed style
CharObserved == { ("CharEvent" \in __init__(tracked).registered) : tracked \in BOOLEAN }

\* InteractorStylePivot.__init__ ; state is the base class's GetState(), where
\* VTKIS_NONE is 0; char_observer: the CharEvent observer of the key-binding
\* mixin is registered; sphere_position: where the marker was put last;
\* routine: the camera routine the last event ran; camera: the active
\* camera of the renderer; dollies: the dolly steps that have moved it
NewStyle ==
    [ left_down |-> FALSE, right_down |-> FALSE, state |-> 0,
      pivot |-> << 0, 0, 0 >>, _pivot_sphere_visible |-> FALSE,
      _focus_sphere_renderer |-> FALSE, sphere_position |-> << >>,
      last_pos |-> << >>, routine |-> "", char_observer |-> TRUE,
      camera |-> NewCamera(FALSE, 0), motion_factor |-> 0, wheel_factor |-> 1,
      dollies |-> 0 ]

NotHandled == [ event |-> "", pos |-> << >>, key |-> "", mods |-> {}, called |-> FALSE,
                ret |-> FALSE, raised |-> FALSE, before |-> NewStyle ]

PivotInit(scenes, observers, rigs) ==
    /\ \E observed \in observers, rig \in rigs :
          style = [NewStyle EXCEPT !.char_observer = observed,
                                   !.camera = NewCamera(rig.parallel, rig.view_angle),
                                   !.motion_factor = rig.motion_factor,
                                   !.wheel_factor = rig.wheel_factor]
    /\ scene \in scenes
    /\ held = {}
    /\ handled = NotHandled

\* a direct call of _set_pivot(event_pos)
SetPivotCall ==
    \E event_pos \in EventPositions :
        LET r == _set_pivot(style, scene, event_pos)
        IN /\ style' = r.st
           /\ handled' = [ event |-> "_set_pivot", pos |-> event_pos, key |-> "",
                           mods |-> {}, called |-> TRUE, ret |-> r.ret, raised |-> FALSE,
                           before |-> style ]
           /\ UNCHANGED << scene, held, texVars, evVars, keyVars, widgetVars, hostVars >>

\* _show_pivot_sphere
_show_pivot_sphere(st) ==
    [st EXCEPT !.sphere_position = st.pivot,
               !._focus_sphere_renderer = TRUE,
               !._pivot_sphere_visible = TRUE]

\* _hide_pivot_sphere: "hide the sphere if it is visible"
_hide_pivot_sphere(st) ==
    IF st._focus_sphere_renderer THEN [st EXCEPT !._pivot_sphere_visible = FALSE]
    ELSE st

\* the base class's StartRotate (1), StartPan (2), StartSpin (3), StartDolly
\* (4): nothing happens unless the state is VTKIS_NONE
StartState(st, n) == IF st.state = 0 THEN [st EXCEPT !.state = n] ELSE st

\* the base class's EndRotate, EndPan, EndSpin, EndDolly
EndState(st, n) == IF st.state = n THEN [st EXCEPT !.state = 0] ELSE st

\* the modifier keys held with a press of the left button, the one button
\* whose base handler looks at them: none, ctrl, or shift and ctrl
Modifiers == { {}, { "ctrl" }, { "shift", "ctrl" } }

\* the base class's OnLeftButtonDown: with shift StartDolly if ctrl is held
\* too and StartPan if not, with ctrl alone StartSpin, else StartRotate
OnLeftButtonDown(st, mods) ==
    StartState(st, CASE mods = { "shift", "ctrl" } -> 4
                     [] mods = { "shift" } -> 2
                     [] mods = { "ctrl" } -> 3
                     [] OTHER -> 1)

\* the base class's OnLeftButtonUp ends whichever manipulation is running
OnLeftButtonUp(st) == [st EXCEPT !.state = 0]

\* a handler's outcome: the style after it, whether it has called _set_pivot
\* and what the call returned
Outcome(st, called, ret) ==
    [ st |-> st, called |-> called, ret |-> ret, raised |-> FALSE ]

\* the outcome of a handler that an exception has ended
Raising(out) == [out EXCEPT !.raised = TRUE]

\* the outcome of a handler that, having made the _set_pivot call r, ends
\* with the style st
After(r, st) == Outcome(st, r.called, r.ret)

\* the acquisition of a press that shows the marker only at a new pivot
AcquireAndShow_OnlyOnSuccess(st, sc, pos) ==
    LET r == _set_pivot(st, sc, pos)
    IN Outcome(IF r.ret THEN _show_pivot_sphere(r.st) ELSE r.st, TRUE, r.ret)

\* the acquisition of a press: _set_pivot(click_pos), _show_pivot_sphere()
AcquireAndShow(st, sc, pos) ==
    LET r == _set_pivot(st, sc, pos)
    IN Outcome(_show_pivot_sphere(r.st), TRUE, r.ret)

\* the handler ends with super().OnLeftButtonDown()
_left_button_press_event(st, sc, pos, mods) ==
    LET s1 == [st EXCEPT !.left_down = TRUE]
        r == IF ~s1.right_down THEN AcquireAndShow(s1, sc, pos) ELSE Outcome(s1, FALSE, FALSE)
    IN After(r, OnLeftButtonDown([r.st EXCEPT !.last_pos = pos], mods))

\* the right-button press acquiring a pivot whatever the left button does
_right_button_press_event_Unlocked(st, sc, pos) ==
    LET r == AcquireAndShow([st EXCEPT !.right_down = TRUE], sc, pos)
    IN After(r, StartState([r.st EXCEPT !.last_pos = pos], 2))

\* the handler ends with super().OnMiddleButtonDown(): StartPan
_right_button_press_event(st, sc, pos) ==
    LET s1 == [st EXCEPT !.right_down = TRUE]
        r == IF ~s1.left_down THEN AcquireAndShow(s1, sc, pos) ELSE Outcome(s1, FALSE, FALSE)
    IN After(r, StartState([r.st EXCEPT !.last_pos = pos], 2))

\* the middle-button press acquiring a pivot only while no other button is
\* held
_middle_button_press_event_Locked(st, sc, pos) ==
    LET r == IF ~st.left_down /\ ~st.right_down THEN AcquireAndShow(st, sc, pos)
             ELSE Outcome(st, FALSE, FALSE)
    IN After(r, StartState([r.st EXCEPT !.last_pos = pos], 4))

\* the handler ends with super().OnRightButtonDown(): StartDolly
_middle_button_press_event(st, sc, pos) ==
    LET r == AcquireAndShow(st, sc, pos)
    IN After(r, StartState([r.st EXCEPT !.last_pos = pos], 4))

_left_button_release_event(st) ==
    LET s1 == [st EXCEPT !.left_down = FALSE]
        s2 == IF ~s1.right_down THEN _hide_pivot_sphere(s1) ELSE s1
    IN Outcome(OnLeftButtonUp(s2), FALSE, FALSE)

\* the right-button release ending with the base class's OnRightButtonUp:
\* EndDolly
_right_button_release_event_EndDolly(st) ==
    LET s1 == [st EXCEPT !.right_down = FALSE]
        s2 == IF ~s1.left_down THEN _hide_pivot_sphere(s1) ELSE s1
    IN Outcome(EndState(s2, 4), FALSE, FALSE)

\* the handler ends with super().OnMiddleButtonUp(): EndPan
_right_button_release_event(st) ==
    LET s1 == [st EXCEPT !.right_down = FALSE]
        s2 == IF ~s1.left_down THEN _hide_pivot_sphere(s1) ELSE s1
    IN Outcome(EndState(s2, 2), FALSE, FALSE)

\* the handler ends with super().OnRightButtonUp(): EndDolly
_middle_button_release_event(st) ==
    Outcome(EndState(_hide_pivot_sphere(st), 4), FALSE, FALSE)

\* _translate_camera moving the camera and leaving the focal point
_translate_camera_PositionOnly(st, translation) ==
    [st EXCEPT !.camera.position = Plus(st.camera.position, translation),
               !.dollies = IF translation = << 0, 0, 0 >> THEN @ ELSE @ + 1]

\* _translate_camera(translation)
_translate_camera(st, translation) ==
    [st EXCEPT !.camera.position = Plus(st.camera.position, translation),
               !.camera.focal_point = Plus(st.camera.focal_point, translation),
               !.dollies = IF translation = << 0, 0, 0 >> THEN @ ELSE @ + 1]

\* _dolly_camera moving the camera by move * delta * 4
_dolly_camera_AwayFromPivot(st, num, den) ==
    _translate_camera(st, Scaled(Minus(InFine(st.pivot), st.camera.position), num * 4, den))

\* _dolly_camera(delta), delta being num / den
_dolly_camera(st, num, den) ==
    LET move == Minus(InFine(st.pivot), st.camera.position)
        offset == Scaled(move, num * (-4), den)
    IN _translate_camera(st, offset)

\* _mousewheel_forward_event (sign -1) and _mousewheel_backward_event (sign
\* 1): delta = GetMotionFactor() * sign * 0.005 * GetMouseWheelMotionFactor();
\* with a parallel projection the quotient of the bound method
\* camera.GetParallelScale and delta is a TypeError, between StartDolly and
\* EndDolly
_mousewheel_event(st, sc, pos, sign) ==
    LET r == _set_pivot(st, sc, pos)
        s1 == StartState(r.st, 4)
    IN IF r.ret
       THEN IF s1.camera.parallel
            THEN Raising(Outcome(s1, TRUE, r.ret))
            ELSE Outcome(EndState([_dolly_camera(s1, s1.motion_factor * sign * 5
                                                         * s1.wheel_factor, 1000)
                                      EXCEPT !.routine = "_dolly_camera"], 4),
                         TRUE, r.ret)
       ELSE Outcome(r.st, TRUE, r.ret)

\* _dolly: delta is the difference of the normalized heights of the event
\* position and the last position, -1.0 + 2.0 * y / size[1]
_dolly(st, pos) ==
    _dolly_camera(st, 2 * (pos[2] - st.last_pos[2]), Cardinality(Rows))

\* _get_right_v_and_up_v for the camera looking along z: the view plane
\* normal is (0, 0, -1), l = -dot(pivot - cam_pos, normal), scaley =
\* l * tan(view_angle / 2), scalex = size[0] / size[1] * scaley, right_v is
\* scalex along the cross product of view up and normal, (-1, 0, 0), and
\* up_v is scaley along (0, 1, 0); the vectors are given as numerator over
\* the window height size[1]
_get_right_v_and_up_v(st) ==
    LET l == Minus(InFine(st.pivot), st.camera.position)[3]
        scaley == l * TanHalf(st.camera.view_angle)
    IN [ right_v |-> << -(Cardinality(Columns) * scaley), 0, 0 >>,
         up_v |-> << 0, Cardinality(Rows) * scaley, 0 >>,
         den |-> Cardinality(Rows) ]

\* _pan: deltax and deltay are the differences of the normalized event and
\* last positions, 2 * dx / size[0] and 2 * dy / size[1]; offset_v =
\* -deltax * right_v + (-deltay * up_v)
_pan(st, pos) ==
    LET v == _get_right_v_and_up_v(st)
        dx == pos[1] - st.last_pos[1]
        dy == pos[2] - st.last_pos[2]
        offset_v == Plus(Scaled(v.right_v, -2 * dx, Cardinality(Columns) * v.den),
                         Scaled(v.up_v, -2 * dy, Cardinality(Rows) * v.den))
    IN _translate_camera(st, offset_v)

\* a move handler that takes the pointer position for the pivot
_mouse_move_event_MovesPivot(st, pos) ==
    Outcome([st EXCEPT !.pivot = << pos[1], pos[2], 0 >>, !.last_pos = pos], FALSE, FALSE)

\* _pan, _spin and _dolly read self.last_pos, an attribute the press
\* handlers and _mouse_move_event assign and __init__ does not: an
\* AttributeError before the first assignment
_mouse_move_event(st, pos) ==
    LET routine == CASE st.state = 1 -> "_rotate"
                     [] st.state = 2 -> "_pan"
                     [] st.state = 3 -> "_spin"
                     [] st.state = 4 -> "_dolly"
                     [] OTHER -> "OnMouseMove"
    IN IF st.state \in {2, 3, 4} /\ st.last_pos = << >>
       THEN Raising(Outcome([st EXCEPT !.routine = routine], FALSE, FALSE))
       ELSE LET s1 == CASE st.state = 2 -> _pan(st, pos)
                        [] st.state = 4 -> _dolly(st, pos)
                        [] OTHER -> st
            IN Outcome([s1 EXCEPT !.routine = routine, !.last_pos = pos], FALSE, FALSE)

\* _fly_to_point
_fly_to_point(st, sc, pos) ==
    LET r == _set_pivot(st, sc, pos)
    IN Outcome(_hide_pivot_sphere([_show_pivot_sphere(r.st) EXCEPT !.routine = "FlyTo"]),
               TRUE, r.ret)

\* on_char_event: 'f', 'r' and 'p' are in the dispatcher, the KeyError of
\* any other key is dropped
on_char_event(st, sc, pos, key) ==
    IF ~st.char_observer THEN Outcome(st, FALSE, FALSE)
    ELSE CASE key = "f" -> _fly_to_point(st, sc, pos)
           [] key = "r" -> Outcome([st EXCEPT !.routine = "_reset_camera"], FALSE, FALSE)
           [] key = "p" -> Outcome([st EXCEPT !.routine = "_pick"], FALSE, FALSE)
           [] OTHER -> Outcome(st, FALSE, FALSE)

\* a depth buffer without geometry: every pixel at the far plane
EmptyScene == [ px \in Pixels |-> FarPlane ]

\* a depth buffer with geometry at depth 0.4 in the pixels `near` and at
\* depth 0.7 in the pixels `mid`
SceneWith(near, mid) ==
    [ px \in Pixels |-> IF px \in near THEN 4 ELSE IF px \in mid THEN 7 ELSE FarPlane ]

\* the scenes the style is driven in: nothing; geometry left of both event
\* positions' common pixels; geometry at both ends; geometry in the middle
Scenes ==
    { EmptyScene,
      SceneWith({ << 0, 1 >> }, {}),
      SceneWith({ << 0, 1 >> }, { << 3, 1 >> }),
      SceneWith({ << 1, 1 >>, << 2, 2 >> }, { << 3, 0 >> }) }

\* the scenes the camera is moved in: geometry left of the one event
\* position and none around the other; geometry at two depths
CameraScenes ==
    { SceneWith({ << 0, 1 >> }, {}),
      SceneWith({ << 1, 1 >>, << 2, 2 >> }, { << 3, 0 >> }) }

\* the keys of the character events
CharKeys == { "f", "r", "p", "x" }

\* the interactor delivers an event to the style, whose handler ends with
\* outcome `out`
Deliver(event, pos, key, mods, out) ==
    /\ style' = out.st
    /\ handled' = [ event |-> event, pos |-> pos, key |-> key, mods |-> mods,
                    called |-> out.called, ret |-> out.ret,
                    raised |-> out.raised, before |-> style ]
    /\ UNCHANGED << scene, texVars, evVars, keyVars, widgetVars, hostVars >>

\* the style as a handler finds it
Current == [style EXCEPT !.routine = ""]

ButtonPress ==
    \E b \in ButtonSet \ held, pos \in EventPositions :
      \E mods \in (IF b = "Left" THEN Modifiers ELSE {{}}) :
        /\ held' = held \cup {b}
        /\ Deliver(b \o "ButtonPressEvent", pos, "", mods,
                   CASE b = "Left" -> _left_button_press_event(Current, scene, pos, mods)
                     [] b = "Right" -> _right_button_press_event(Current, scene, pos)
                     [] b = "Middle" -> _middle_button_press_event(Current, scene, pos))

ButtonRelease ==
    \E b \in held, pos \in EventPositions :
        /\ held' = held \ {b}
        /\ Deliver(b \o "ButtonReleaseEvent", pos, "", {},
                   CASE b = "Left" -> _left_button_release_event(Current)
                     [] b = "Right" -> _right_button_release_event(Current)
                     [] b = "Middle" -> _middle_button_release_event(Current))

Wheel ==
    \E dir \in {"Forward", "Backward"}, pos \in EventPositions :
        /\ style.dollies < MaxDolly
        /\ Deliver("MouseWheel" \o dir \o "Event", pos, "", {},
                   _mousewheel_event(Current, scene, pos,
                                     IF dir = "Forward" THEN -1 ELSE 1))
        /\ UNCHANGED held

MouseMove ==
    \E pos \in EventPositions :
        /\ Deliver("MouseMoveEvent", pos, "", {}, _mouse_move_event(Current, pos))
        /\ UNCHANGED held

\* the positions of a drag: the event positions and the pixel above one
DragPositions == EventPositions \cup { << 1, 2 >> }

\* a press of the right or the middle button, the buttons whose drags pan
\* and dolly
DragPress ==
    \E b \in { "Right", "Middle" } \ held, pos \in EventPositions :
        /\ held' = held \cup {b}
        /\ Deliver(b \o "ButtonPressEvent", pos, "", {},
                   CASE b = "Right" -> _right_button_press_event(Current, scene, pos)
                     [] b = "Middle" -> _middle_button_press_event(Current, scene, pos))

\* a pointer move to any of the drag positions, while the camera has moves
\* left
Drag ==
    \E pos \in DragPositions :
        LET out == _mouse_move_event(Current, pos)
        IN /\ out.st.dollies <= MaxDolly
           /\ Deliver("MouseMoveEvent", pos, "", {}, out)
           /\ UNCHANGED held

Char ==
    \E key \in CharKeys, pos \in EventPositions :
        /\ Deliver("CharEvent", pos, key, {}, on_char_event(Current, scene, pos, key))
        /\ UNCHANGED held

\* ------------------------------------------------------------------------
\* Loading and constructing the backends
\* ------------------------------------------------------------------------

\* the backends constructed before the loader stands still
MaxMade == 3

\* the module a backend imports its GUI package as: `from imgui_bundle
\* import imgui` and `import imgui`
ImportName == [ imgui_bundle |-> "imgui_bundle", pyimgui |-> "imgui" ]

\* the package a backend's constructor names in its error
RequiredPackage == [ imgui_bundle |-> "imgui_bundle", pyimgui |-> "pyimgui" ]

NotLoaded == [ state |-> "unloaded", imgui |-> FALSE, registered |-> FALSE ]

\* the import at the top of a backend module without its try/except: the
\* ImportError ends the import of the module
GuardedImport_Unguarded(pkgs, backend) ==
    IF ImportName[backend] \in pkgs THEN [ raised |-> FALSE, imgui |-> TRUE ]
    ELSE [ raised |-> TRUE, imgui |-> FALSE ]

\* try: import ... except ImportError: imgui = None
GuardedImport(pkgs, backend) ==
    [ raised |-> FALSE, imgui |-> ImportName[backend] \in pkgs ]

\* @register_backend(name): the class is entered in the registry of backends
register_backend(module) == [module EXCEPT !.registered = TRUE]

\* the import of a backend module: the guarded import, for imgui_bundle the
\* key tables under `if imgui:`, and the class statement
ImportBackend(pkgs, backend) ==
    LET r == GuardedImport(pkgs, backend)
    IN IF r.raised THEN [ state |-> "failed", imgui |-> FALSE, registered |-> FALSE ]
       ELSE register_backend([ state |-> "loaded", imgui |-> r.imgui, registered |-> FALSE ])

Made(backend, border, err, names) ==
    [ backend |-> backend, border |-> border, error |-> err, names |-> names ]

\* the constructor of a backend without the test of its GUI package
Backend__init___Unchecked(module, backend, border) ==
    Made(backend, border, "none", "")

\* RendererBackendImguiBundle.__init__ and RendererBackendPyImgui.__init__
Backend__init__(module, backend, border) ==
    IF ~module.imgui
    THEN Made(backend, border, "ModuleNotFoundError", RequiredPackage[backend])
    ELSE Made(backend, border, "none", "")

\* ------------------------------------------------------------------------
\* ImguiPlotter.show and the host loop
\* ------------------------------------------------------------------------

\* the frames the host loop counts
MaxHostFrames == 3

\* the close() calls made on a plotter
MaxCloses == 2

\* a plotter before show(): main is the caller of show ("idle", "showing"
\* while show has not returned, "returned", "raised"); loop is where the
\* backend's show stands ("none", "init", "test" at the head of the while
\* loop, "frame" in its body, "terminated", "failed"); thread is the thread
\* that runs it; should_close is glfw.window_should_close(window), seen what
\* the loop has last read of it; frames counts the per-frame renders and late
\* those begun after the loop has read should_close as set; theme is
\* global_theme._before_close_callback, registered the callback show has
\* kept; closes counts the close() calls, called the calls of the callback
\* and returned those of them that returned
HostIdle(background, backend) ==
    [ background |-> background, backend |-> backend, main |-> "idle",
      _before_close_callback |-> "None", theme |-> "None", registered |-> "None",
      _closed |-> FALSE, closes |-> 0, called |-> 0, returned |-> 0,
      loop |-> "none", thread |-> "none", window |-> "none",
      should_close |-> FALSE, seen |-> FALSE, frames |-> 0, late |-> 0 ]

LoaderInit(packages) ==
    /\ \E pkgs \in packages :
          loader = [ packages |-> pkgs, modules |-> [ b \in Backends |-> NotLoaded ],
                     made |-> << >> ]
    /\ host = HostIdle(FALSE, "pyimgui")

\* show waiting for the worker thread it has started
show_JoinsThread(h, before_close_callback) ==
    [h EXCEPT !.thread = IF h.background THEN "worker" ELSE "main",
              !.loop = "init", !.main = "showing"]

\* ImguiPlotter.show up to the start of the host loop: the callback given,
\* or the theme's if None is given, is kept; with _run_background
\* Thread(target=_show).start(), after which show returns; else _show() on
\* the calling thread
show(h, before_close_callback) ==
    LET kept == IF before_close_callback = "None" THEN h.theme
                ELSE before_close_callback
        h1 == [h EXCEPT !._before_close_callback = kept, !.registered = kept]
    IN IF h1.background
       THEN [h1 EXCEPT !.thread = "worker", !.loop = "init", !.main = "returned"]
       ELSE [h1 EXCEPT !.thread = "main", !.loop = "init", !.main = "showing"]

\* ImguiPlotter.close: the callback, if there is one, is called with the
\* plotter and then set to None, and the plotter is closed; an exception of
\* the callback ends close() at the call
ImguiPlotter_close(h, raises) ==
    LET h1 == [h EXCEPT !.closes = @ + 1]
    IN IF h1._before_close_callback # "None"
       THEN IF raises THEN [h1 EXCEPT !.called = @ + 1]
            ELSE [h1 EXCEPT !.called = @ + 1, !.returned = @ + 1,
                            !._before_close_callback = "None", !._closed = TRUE]
       ELSE [h1 EXCEPT !._closed = TRUE]

\* the host loop has ended, by its return or by an exception: on the calling
\* thread show ends with it
LoopEnded(h, how) ==
    [h EXCEPT !.loop = how,
              !.main = IF h.thread = "main"
                       THEN (IF how = "failed" THEN "raised" ELSE "returned")
                       ELSE @]

\* the backend's show before its loop: glfw.init() and glfw.create_window,
\* hello_imgui's runner for imgui_bundle; ok: the window could be made
StartHost(h, ok) ==
    IF ok THEN [h EXCEPT !.loop = "test", !.window = "open"]
    ELSE LoopEnded(h, "failed")

\* while not glfw.window_should_close(window): ... ; impl.shutdown();
\* glfw.terminate()
TestClose(h) ==
    IF h.should_close
    THEN LoopEnded([h EXCEPT !.window = "closed", !.seen = TRUE], "terminated")
    ELSE [h EXCEPT !.loop = "frame", !.seen = FALSE]

\* the body of the loop: a frame with self.render() in it
HostFrame(h) ==
    [h EXCEPT !.loop = "test",
              !.frames = IF @ < MaxHostFrames THEN @ + 1 ELSE @,
              !.late = IF h.seen /\ @ < MaxHostFrames THEN @ + 1 ELSE @]

Show ==
    /\ host.main = "idle"
    /\ \E before_close_callback \in { "None", "callback" } :
          host' = show(host, before_close_callback)
    /\ UNCHANGED << loader, texVars, evVars, keyVars, widgetVars, pivotVars >>

HostStart ==
    /\ host.loop = "init"
    /\ \E ok \in BOOLEAN : host' = StartHost(host, ok)
    /\ UNCHANGED << loader, texVars, evVars, keyVars, widgetVars, pivotVars >>

HostTest ==
    /\ host.loop = "test"
    /\ host' = TestClose(host)
    /\ UNCHANGED << loader, texVars, evVars, keyVars, widgetVars, pivotVars >>

HostRender ==
    /\ host.loop = "frame"
    /\ host' = HostFrame(host)
    /\ UNCHANGED << loader, texVars, evVars, keyVars, widgetVars, pivotVars >>

\* the user closes the host window
RequestClose ==
    /\ host.window = "open"
    /\ ~host.should_close
    /\ host' = [host EXCEPT !.should_close = TRUE]
    /\ UNCHANGED << loader, texVars, evVars, keyVars, widgetVars, pivotVars >>

\* the application calls close() on a plotter whose show has returned;
\* raises: the callback, if one is called, raises
PlotterClose ==
    /\ host.main \in { "returned", "raised" }
    /\ host.closes < MaxCloses
    /\ \E raises \in BOOLEAN :
          /\ raises => host._before_close_callback # "None"
          /\ host' = ImguiPlotter_close(host, raises)
    /\ UNCHANGED << loader, texVars, evVars, keyVars, widgetVars, pivotVars >>

HostInit ==
    /\ loader = [ packages |-> {}, modules |-> [ b \in Backends |-> NotLoaded ],
                  made |-> << >> ]
    /\ \E background \in BOOLEAN, backend \in Backends, theme \in { "None", "theme" } :
          host = [HostIdle(background, backend) EXCEPT !.theme = theme]

\* `import pyvista_imgui._backend_...`, which Python runs once for a module
LoadBackend ==
    \E b \in Backends :
        /\ loader.modules[b].state = "unloaded"
        /\ loader' = [loader EXCEPT !.modules[b] = ImportBackend(loader.packages, b)]
        /\ UNCHANGED << host, texVars, evVars, keyVars, widgetVars, pivotVars >>

\* a backend of a loaded module is constructed
ConstructBackend ==
    \E b \in Backends, border \in BOOLEAN :
        /\ loader.modules[b].state = "loaded"
        /\ Len(loader.made) < MaxMade
        /\ loader' = [loader EXCEPT
                         !.made = Append(@, Backend__init__(loader.modules[b], b, border))]
        /\ UNCHANGED << host, texVars, evVars, keyVars, widgetVars, pivotVars >>

RestInit ==
    /\ KeyInit /\ WidgetInit({"imgui_bundle"}) /\ PivotInit({EmptyScene}, {TRUE}, {StillRig})
    /\ LoaderInit({{}})

\* ------------------------------------------------------------------------
\* Specifications
\* ------------------------------------------------------------------------

Init == TexInit(InitialSizes) /\ EvInit /\ RestInit

Next == RenderAny \/ CloseAny

Spec == Init /\ [][Next]_vars

InitEvents == TexInit({Px(0, 0)}) /\ EvInit /\ RestInit

NextEvents ==
    \/ NewFrame
    \/ MouseDown
    \/ MouseUp
    \/ MouseWheel
    \/ KeyDown
    \/ KeyRepeat
    \/ KeyUp
    \/ ProcessEvents

SpecEvents == InitEvents /\ [][NextEvents]_vars

NextKeys ==
    \/ NewFrame
    \/ KeyDown
    \/ KeyRepeat
    \/ KeyUp
    \/ ProcessEventsCounted

SpecKeys == InitEvents /\ [][NextKeys]_vars

NextButtons ==
    \/ NewFrame
    \/ MouseDown
    \/ MouseUp
    \/ ProcessEventsCounted

SpecButtons == InitEvents /\ [][NextButtons]_vars

NextWidget == WidgetRenderAny \/ CloseAny

InitWidget ==
    /\ TexInit(InitialSizes) /\ EvInit /\ KeyInit
    /\ WidgetInit(Backends) /\ PivotInit({EmptyScene}, {TRUE}, {StillRig})
    /\ LoaderInit({{}})

SpecWidget == InitWidget /\ [][NextWidget]_vars

InitPivot ==
    /\ TexInit({Px(0, 0)}) /\ EvInit /\ KeyInit /\ WidgetInit({"imgui_bundle"})
    /\ PivotInit(Scenes, CharObserved, {StillRig})
    /\ LoaderInit({{}})

NextPivot ==
    \/ ButtonPress
    \/ ButtonRelease
    \/ Wheel
    \/ MouseMove
    \/ Char

SpecPivot == InitPivot /\ [][NextPivot]_vars

\* _set_pivot called on every depth buffer with near or far samples
InitSetPivot ==
    /\ TexInit({Px(0, 0)}) /\ EvInit /\ KeyInit /\ WidgetInit({"imgui_bundle"})
    /\ PivotInit([Pixels -> {4, FarPlane}], {TRUE}, {StillRig})
    /\ LoaderInit({{}})

NextSetPivot == SetPivotCall

SpecSetPivot == InitSetPivot /\ [][NextSetPivot]_vars

\* the style with the base class's motion factors, and with a larger wheel
\* factor, moving a perspective or a parallel camera
InitCamera ==
    /\ TexInit({Px(0, 0)}) /\ EvInit /\ KeyInit /\ WidgetInit({"imgui_bundle"})
    /\ PivotInit(CameraScenes, {TRUE}, Rigs)
    /\ LoaderInit({{}})

NextCamera ==
    \/ Wheel
    \/ MouseMove

SpecCamera == InitCamera /\ [][NextCamera]_vars

\* the scene of the drags: geometry at two depths
DragScene == SceneWith({ << 1, 1 >>, << 2, 2 >> }, { << 3, 0 >> })

\* the style with the base class's motion factors, dragged with the right
\* and the middle button in front of a perspective camera
InitDrag ==
    /\ TexInit({Px(0, 0)}) /\ EvInit /\ KeyInit /\ WidgetInit({"imgui_bundle"})
    /\ PivotInit({DragScene}, {TRUE}, { Rig(10, 1, FALSE, 90) })
    /\ LoaderInit({{}})

NextDrag ==
    \/ DragPress
    \/ ButtonRelease
    \/ Drag
    \/ Wheel

SpecDrag == InitDrag /\ [][NextDrag]_vars

\* the backend modules loaded and their backends constructed with any of
\* the two GUI packages installed or not
InitBackends ==
    /\ TexInit({Px(0, 0)}) /\ EvInit /\ KeyInit /\ WidgetInit({"imgui_bundle"})
    /\ PivotInit({EmptyScene}, {TRUE}, {StillRig})
    /\ LoaderInit(SUBSET { ImportName[b] : b \in Backends })

NextBackends ==
    \/ LoadBackend
    \/ ConstructBackend

SpecBackends == InitBackends /\ [][NextBackends]_vars

\* a plotter shown in the foreground or in the background; the thread that
\* runs the host loop keeps running
InitHost ==
    /\ TexInit({Px(0, 0)}) /\ EvInit /\ KeyInit /\ WidgetInit({"imgui_bundle"})
    /\ PivotInit({EmptyScene}, {TRUE}, {StillRig})
    /\ HostInit

HostLoop ==
    \/ HostStart
    \/ HostTest
    \/ HostRender

NextHost ==
    \/ Show
    \/ HostStart
    \/ HostTest
    \/ HostRender
    \/ RequestClose
    \/ PlotterClose

SpecHost == InitHost /\ [][NextHost]_vars /\ WF_vars(HostLoop)

\* ------------------------------------------------------------------------
\* Properties of the texture render target
\* ------------------------------------------------------------------------

LastCall == history[Len(history)]

\* the last call was a render call during which no GPU operation raised
Rendered == history # << >> /\ LastCall.op = "render" /\ error = "none"

\* no GPU operation has raised so far
NoFaults == \A i \in 1..Len(history) : history[i].fault = "none"

\* every call so far was a render call during which no GPU operation raised
OnlyRenders ==
    \A i \in 1..Len(history) : history[i].op = "render" /\ history[i].fault = "none"

Requested == [i \in 1..Len(history) |-> history[i].arg]

Count(seq, x) == Cardinality({i \in 1..Len(seq) : seq[i] = x})

Reallocated == Count(calls, "glGenTextures") > 0

\* the size of the surface the call found: none before the first allocation
SurfaceBefore == IF before.first_render THEN NoSize ELSE before.viewport_size

\* C1: over any sequence of render calls the number of texture allocations is
\* the number of distinct positive-size transitions; render(400,300),
\* render(400,300), render(800,600), render(0,300) allocates twice and ends
\* holding the 800x600 texture.
C1_AllocationsAreTransitions ==
    OnlyRenders =>
        /\ stats.allocations = stats.transitions
        /\ Requested = << Px(400, 300), Px(400, 300), Px(800, 600), Px(0, 300) >>
              => /\ stats.allocations = 2
                 /\ texture_id(target) \in gl.alive
                 /\ gl.dims[texture_id(target)] = << 800, 600 >>

\* C2: a render call with a non-positive width or height allocates no texture
\* and leaves texture_id as it was, also before any render has happened.
C2_ZeroSizeNoOp ==
    (Rendered /\ ~Positive(LastCall.size)) =>
        /\ texture_id(target) = before.texture_id
        /\ ~Reallocated
        /\ gl.alive = before.alive

SurfaceSetUp ==
    \E i \in 1..Len(history) :
        /\ history[i].op = "render"
        /\ history[i].fault \in {"none", "Render", "WaitForCompletion"}
        /\ \A j \in (i+1)..Len(history) : history[j].op # "close"

C4_SizeIsLastPositiveRequest ==
    /\ (gl.alive # {} /\ ~raised) => target.viewport_size = stats.lastPositive
    /\ (Rendered /\ ~Positive(LastCall.size))
          => target.viewport_size = before.viewport_size

\* C5: a render call with a non-positive size issues no draw call and changes
\* no attachment.
C5_ZeroSizeSkipsRendering ==
    (Rendered /\ ~Positive(LastCall.size)) =>
        /\ Count(calls, "Render") = 0
        /\ Count(calls, "glFramebufferTexture2D") = 0
        /\ gl.attached = before.attached

\* C6: a render call reallocates exactly when the size differs from the
\* current surface size and is positive; a reallocation releases the prior
\* texture, creates one at the new size, binds it and resets every renderer's
\* camera once; any other call resets no camera and releases nothing.
C6_ReallocateExactlyOnChange ==
    (Rendered /\ NoFaults) =>
        /\ Reallocated <=> (LastCall.size # SurfaceBefore /\ Positive(LastCall.size))
        /\ Reallocated =>
              /\ before.alive \cap gl.alive = {}
              /\ gl.alive = {target._tex}
              /\ gl.dims[target._tex] = IntSize(LastCall.size)
              /\ gl.attached = target._tex
              /\ Count(calls, "ResetCamera") = NumRenderers
        /\ ~Reallocated =>
              /\ Count(calls, "ResetCamera") = 0
              /\ Count(calls, "glDeleteTextures") = 0
              /\ gl.alive = before.alive

\* C7: a render call that returns has ensured the surface (a texture exists
\* and is the render target), then issued the draw call, then waited for
\* completion, in this order; whenever the caller can read the texture handle
\* no draw is pending.
C7_EnsureDrawWaitReturn ==
    /\ Rendered =>
          /\ texture_id(target) \in gl.alive
          /\ gl.attached = texture_id(target)
          /\ Len(calls) >= 2
          /\ calls[Len(calls) - 1] = "Render"
          /\ calls[Len(calls)] = "WaitForCompletion"
          /\ Count(calls, "Render") = 1
          /\ Count(calls, "WaitForCompletion") = 1
    /\ ~raised => ~gl.pending

\* C7 witness: a render call that allocated, drew, waited and returned
C7_Witness ==
    /\ Rendered
    /\ Reallocated
    /\ calls[Len(calls)] = "WaitForCompletion"
    /\ texture_id(target) \in gl.alive

\* C8: an error of the texture release is caught and dropped only in close();
\* an error of any other GPU operation, the release of the previous texture
\* in a reallocation included, propagates to the caller of render.
C8_OnlyCloseSwallows ==
    (history # << >> /\ LastCall.fault # "none") =>
        /\ error = LastCall.fault
        /\ LastCall.op = "render" => raised
        /\ LastCall.op = "close" => raised = before.raised

\* C8 witness: the release raised in a reallocation and ended the render call,
\* then raised again in close() and was dropped
C8_Witness ==
    /\ Len(history) >= 3
    /\ history[Len(history) - 1].op = "render"
    /\ history[Len(history) - 1].fault = "glDeleteTextures"
    /\ LastCall.op = "close"
    /\ error = "glDeleteTextures"
    /\ raised

\* C38: over any sequence of render(size), close() and destruction of one
\* texture render target every texture identifier generated is deleted at
\* most once, and at most one texture generated and not yet deleted exists
\* at any time.
C38_TexturesDeletedOnce ==
    /\ \A name \in DOMAIN gl.deletes : gl.deletes[name] <= 1
    /\ Cardinality(gl.alive) <= 1

\* ------------------------------------------------------------------------
\* Properties of the event translation
\* ------------------------------------------------------------------------

\* the relative pointer position before int(): mouse_pos - viewport_pos
RawRelative == << io.mouse_pos[1] - ViewportPos[1], io.mouse_pos[2] - ViewportPos[2] >>

\* C9: in a frame in which the widget is neither hovered nor focused
\* process_events makes no call on the interaction engine, in every backend.
C9_NoEventsUnlessHoveredOrFocused ==
    (phase = "processed" /\ ~io.hovered /\ ~io.focused) =>
        \A i \in Impls : engine[i] = << >> /\ ~evRaised[i]

\* C9 witness: input arrived in a frame that is neither hovered nor focused,
\* and process_events ran
C9_Witness ==
    /\ phase = "processed"
    /\ ~io.hovered /\ ~io.focused
    /\ io.mouse_clicked # {}
    /\ io.key_pressed # {}
    /\ \A i \in Impls : engine[i] = << >>

\* C10: in a frame in which the pointer position relative to the image's
\* top-left corner has a negative component, no implementation of
\* process_events dispatches a position-dependent event.
C10_NoDispatchOutsideImage ==
    (phase = "processed" /\ (RawRelative[1] < 0 \/ RawRelative[2] < 0)) =>
        \A i \in Impls : engine[i] = << >>

IsPress(c) ==
    c.call = "InvokeEvent"
    /\ c.event \in {"LeftButtonPressEvent", "RightButtonPressEvent", "MiddleButtonPressEvent"}

IsRelease(c) ==
    c.call = "InvokeEvent"
    /\ c.event \in {"LeftButtonReleaseEvent", "RightButtonReleaseEvent",
                    "MiddleButtonReleaseEvent"}

IsWheel(c) ==
    c.call = "InvokeEvent"
    /\ c.event \in {"MouseWheelForwardEvent", "MouseWheelBackwardEvent"}

IsMove(c) == c.call = "InvokeEvent" /\ c.event = "MouseMoveEvent"

\* the calls of the keyboard loop: the per-key position update and the key
\* events that follow it
IsKeyCall(seq, n) ==
    \/ seq[n].call \in {"KeyPressEvent", "CharEvent", "KeyReleaseEvent"}
    \/ n > 1 /\ seq[n].call = "SetEventInformationFlipY"

\* the place of a call in the stated order of a frame: position update,
\* button presses, button releases, wheel, key events
StatedRank(seq, n) ==
    IF n = 1 /\ seq[n].call = "SetEventInformationFlipY" THEN 0
    ELSE IF IsPress(seq[n]) THEN 1
    ELSE IF IsRelease(seq[n]) THEN 2
    ELSE IF IsWheel(seq[n]) THEN 3
    ELSE 4

\* C11: the engine calls of one frame come in the order position update,
\* button presses, button releases, wheel event, key events; a wheel event
\* is never dispatched before a button release of the same frame.
C11_FrameOrder ==
    phase = "processed" =>
        \A i \in Backends : \A a, b \in 1..Len(engine[i]) :
            (a < b /\ ~IsMove(engine[i][a]) /\ ~IsMove(engine[i][b]))
                => StatedRank(engine[i], a) <= StatedRank(engine[i], b)

\* process_events got past both of its early returns
NotShortCircuited ==
    /\ phase = "processed"
    /\ ~NotFocusedNotHovered(io)
    /\ ~OutsideImage(RelativePos(io))

Moves(seq) == { n \in 1..Len(seq) : IsMove(seq[n]) }

\* C12: in a frame in which process_events is not short-circuited exactly one
\* pointer-moved event is dispatched, after every button and wheel event of
\* the frame and before every key event.
C12_OneMoveAfterButtons ==
    NotShortCircuited =>
        \A i \in Backends :
            /\ Cardinality(Moves(engine[i])) = 1
            /\ \A m \in Moves(engine[i]), n \in 1..Len(engine[i]) :
                  /\ (IsPress(engine[i][n]) \/ IsRelease(engine[i][n])
                         \/ IsWheel(engine[i][n])) => n < m
                  /\ IsKeyCall(engine[i], n) => m < n

\* C12 witness: a frame with a button release and a key press, the
\* pointer-moved event between them
C12_Witness ==
    /\ NotShortCircuited
    /\ \E a, m, k \in 1..Len(engine["imgui_bundle"]) :
          /\ a < m /\ m < k
          /\ IsRelease(engine["imgui_bundle"][a])
          /\ IsMove(engine["imgui_bundle"][m])
          /\ engine["imgui_bundle"][k].call = "KeyPressEvent"
    /\ \E m \in 1..Len(engine["pyimgui"]) : IsMove(engine["pyimgui"][m])

\* what the engine is to be told about a key: its symbol and character from
\* the table, or the null symbol and the no-character sentinel
StatedPayload(k) ==
    CASE k = "tab" -> << "Tab", Chr0 >>
      [] k = "f" -> << "f", "f" >>
      [] OTHER -> << NoSym, Chr0 >>

Payloads == { StatedPayload(k) : k \in KeySet }

\* the per-key position updates of a frame that carry the payload
KeyUpdates(seq, payload) ==
    { n \in 2..Len(seq) : /\ seq[n].call = "SetEventInformationFlipY"
                          /\ << seq[n].keysym, seq[n].keycode >> = payload }

\* the keys with a press or release transition in the frame
Transitions == io.key_pressed \cup io.key_released

\* every per-key position update is followed by the key's event
KeyUpdatesAnnounceEvents(seq) ==
    \A n \in 2..Len(seq) :
        seq[n].call = "SetEventInformationFlipY" =>
            /\ n < Len(seq)
            /\ seq[n+1].call \in {"KeyPressEvent", "KeyReleaseEvent"}

\* C13 as stated: in a hovered frame every key of the named-key range with a
\* press or release transition is dispatched with its payload, none dropped.
C13_EveryTransitionDispatched ==
    (phase = "processed" /\ io.hovered) =>
        /\ KeyUpdatesAnnounceEvents(engine["imgui_bundle"])
        /\ \A pl \in Payloads :
              Cardinality(KeyUpdates(engine["imgui_bundle"], pl))
                = Cardinality({ k \in Transitions : StatedPayload(k) = pl })

\* C13 amended: in a hovered frame that passes the position guard every key
\* of the named-key range outside _ignore_keys with a press or release
\* transition is dispatched with its payload, none dropped.
C13_EveryListenedTransitionDispatched ==
    (NotShortCircuited /\ io.hovered) =>
        /\ KeyUpdatesAnnounceEvents(engine["imgui_bundle"])
        /\ \A pl \in Payloads :
              Cardinality(KeyUpdates(engine["imgui_bundle"], pl))
                = Cardinality({ k \in Transitions \ _ignore_keys : StatedPayload(k) = pl })

\* C13 witness: a key that is not in the table and a mouse pseudo-key go down
\* in a hovered frame; one update with the null symbol reaches the engine
C13_Witness ==
    /\ NotShortCircuited /\ io.hovered
    /\ io.key_pressed = { "apostrophe", "mouse_left" }
    /\ Cardinality(KeyUpdates(engine["imgui_bundle"], << NoSym, Chr0 >>)) = 1

\* C14: key press and release counts balance on the receiving side: in a
\* frame in which a key is reported released the engine gets a KeyRelease
\* for it, and once a key is up the engine has got as many KeyRelease as
\* KeyPress events for it.
C14_PressReleaseBalance ==
    phase = "processed" =>
        \A k \in ListenedKeys :
            /\ (NotShortCircuited /\ io.hovered /\ k \in io.key_released)
                  => KeyCalls(engine["imgui_bundle"], k, "KeyReleaseEvent") # {}
            /\ k \notin io.keys_down => received[k].press = received[k].release

\* C15: in the imgui_bundle backend the frame's position update carries
\* repeat count 1 exactly when a button is double-clicked in the frame, no
\* call or event of its own announces a double click, and the per-key
\* position updates carry repeat count 0.
C15_DoubleClickIsRepeatFlag ==
    NotShortCircuited =>
        LET seq == engine["imgui_bundle"]
        IN /\ seq[1].call = "SetEventInformationFlipY"
           /\ seq[1].repeat = (IF io.mouse_double_clicked = {} THEN 0 ELSE 1)
           /\ \A n \in 2..Len(seq) :
                 /\ seq[n].call = "SetEventInformationFlipY" => seq[n].repeat = 0
                 /\ seq[n].call \in {"InvokeEvent", "KeyPressEvent", "CharEvent",
                                     "KeyReleaseEvent", "SetEventInformationFlipY"}
                 /\ seq[n].call = "InvokeEvent" =>
                       IsPress(seq[n]) \/ IsRelease(seq[n]) \/ IsWheel(seq[n])
                          \/ IsMove(seq[n])

\* C15 witness: the right button is double-clicked and a key goes down in
\* one hovered frame
C15_Witness ==
    /\ NotShortCircuited
    /\ io.mouse_double_clicked = { "Right" }
    /\ engine["imgui_bundle"][1].repeat = 1
    /\ \E n \in 2..Len(engine["imgui_bundle"]) :
          /\ engine["imgui_bundle"][n].call = "SetEventInformationFlipY"
          /\ engine["imgui_bundle"][n].repeat = 0

\* a call that dispatches a key event
IsKeyEvent(c) == c.call \in {"KeyPressEvent", "CharEvent", "KeyReleaseEvent"}

Precedence == [ Left |-> 1, Right |-> 2, Middle |-> 3 ]

\* the button of a set that comes first in the stated precedence
Foremost(set) == CHOOSE b \in set : \A c \in set : Precedence[b] <= Precedence[c]

\* the events of one group among the calls of a frame, in order
EventsOf(seq, Group(_)) ==
    LET RECURSIVE Pick(_)
        Pick(n) == IF n > Len(seq) THEN << >>
                   ELSE IF Group(seq[n]) THEN << seq[n].event >> \o Pick(n + 1)
                   ELSE Pick(n + 1)
    IN Pick(1)

IsPressOrWheel(c) == IsPress(c) \/ IsWheel(c)

\* the one press or wheel event the stated precedence gives a hovered frame
StatedPressOrWheel ==
    IF ~io.hovered THEN << >>
    ELSE IF io.mouse_clicked # {} THEN << Foremost(io.mouse_clicked) \o "ButtonPressEvent" >>
    ELSE IF io.mouse_wheel > 0 THEN << "MouseWheelForwardEvent" >>
    ELSE IF io.mouse_wheel < 0 THEN << "MouseWheelBackwardEvent" >>
    ELSE << >>

\* the one release event the stated order gives a frame
StatedRelease ==
    IF io.mouse_released # {} THEN << Foremost(io.mouse_released) \o "ButtonReleaseEvent" >>
    ELSE << >>

\* C30: a frame dispatches at most one event of left press, right press,
\* middle press, wheel forward, wheel backward, the first of these in that
\* order of precedence, and at most one release, the first in the order left,
\* right, middle; a wheel delta in a frame with a press gives no wheel event.
C30_OnePressOrWheelOneRelease ==
    phase = "processed" =>
        \A b \in Backends :
            engine[b] # << >> =>
                /\ EventsOf(engine[b], IsPressOrWheel) = StatedPressOrWheel
                /\ EventsOf(engine[b], IsRelease) = StatedRelease
                /\ io.mouse_clicked # {} => EventsOf(engine[b], IsWheel) = << >>

\* C30 witness: a hovered frame with the right and the middle button pressed
\* in it: the right press is the one that both backends dispatch
C30_Witness ==
    /\ phase = "processed"
    /\ io.hovered
    /\ io.mouse_clicked = { "Right", "Middle" }
    /\ \A b \in Backends :
          EventsOf(engine[b], IsPressOrWheel) = << "RightButtonPressEvent" >>

\* the events alternate and start with a press
Alternates(seq) ==
    \A n \in 1..Len(seq) : seq[n] = IF n % 2 = 1 THEN "press" ELSE "release"

\* C31: for each mouse button the press and release events dispatched over
\* the frames alternate and start with a press (no release without a press
\* dispatched before it), and once the GUI reports the button released every
\* dispatched press has been followed by a dispatched release.  The GUI's
\* own press and release transitions of a button alternate in every run.
C31_PressReleaseAlternate ==
    phase = "processed" =>
        \A i \in Backends, b \in ButtonSet :
            /\ Alternates(dispatched[i][b])
            /\ b \notin io.mouse_down => Len(dispatched[i][b]) % 2 = 0

\* ------------------------------------------------------------------------
\* Properties of the embedding widget
\* ------------------------------------------------------------------------

\* the places of a step in the widget's last render call
StepsAt(name) == { n \in 1..Len(widget.steps) : widget.steps[n].step = name }

\* the size the widget's last render call was to use
WidgetSize == IF widget.arg = NoSize THEN widget.avail ELSE widget.arg

\* the last call on the render target was made by the widget's render, which
\* returned
WidgetRendered ==
    /\ widget.steps # << >> /\ ~widget.raised
    /\ history # << >> /\ LastCall.op = "render"

\* C16: a render call of the widget determines the size, renders the texture
\* target at that size to completion, draws the image and then calls
\* process_events, once per call and never before the image is drawn.
C16_WidgetRenderOrder ==
    /\ WidgetRendered =>
          \E r, i, e \in 1..Len(widget.steps) :
              /\ r < i /\ i < e
              /\ StepsAt("render_window.render") = {r}
              /\ StepsAt("image") = {i}
              /\ StepsAt("process_events") = {e}
              /\ widget.steps[r].size = WidgetSize
              /\ LastCall.size = WidgetSize
              /\ widget.arg = NoSize =>
                    /\ r > 1
                    /\ widget.steps[1] = Step("get_content_region_avail", widget.avail, None)
              /\ calls[Len(calls) - 1] = "Render"
              /\ calls[Len(calls)] = "WaitForCompletion"
              /\ ~gl.pending
    /\ Cardinality(StepsAt("process_events")) <= 1
    /\ \A e \in StepsAt("process_events") : \E i \in StepsAt("image") : i < e

\* C16 witness: render() without a size took the content region, rendered,
\* drew the image and processed the events
C16_Witness ==
    /\ WidgetRendered
    /\ widget.arg = NoSize /\ Positive(widget.avail)
    /\ StepsAt("get_content_region_avail") = {1}
    /\ StepsAt("image") # {} /\ StepsAt("process_events") # {}
    /\ target.viewport_size = widget.avail

\* C17: over any sequence of render calls of the widget, the first frame and
\* frames with a zero or negative panel size included, the image is never
\* drawn with a None texture handle: the handle names a texture.
C17_ImageHandleNeverNone ==
    \A n \in StepsAt("image") :
        /\ widget.steps[n].handle # None
        /\ WidgetRendered => widget.steps[n].handle \in gl.alive

\* C17 witness: the widget's first frame has a panel without area and draws
\* the image with a handle
C17_Witness ==
    /\ WidgetRendered
    /\ Len(history) = 1
    /\ ~Positive(WidgetSize)
    /\ \E n \in StepsAt("image") : widget.steps[n].handle # None

\* C37: after every render call of the embedding widget the size set on the
\* interactor is the size of the render surface, i.e. of the render window
\* and of its texture, frames whose requested size is not positive included.
C37_InteractorSizeIsSurfaceSize ==
    WidgetRendered =>
        \E n \in StepsAt("interactor.SetSize") :
            /\ widget.steps[n].size = target.rw_size
            /\ widget.steps[n].size = gl.dims[target._tex]

\* ------------------------------------------------------------------------
\* Properties of the pivot camera controller
\* ------------------------------------------------------------------------

\* the pixels of the depth window around a position
DepthWindow(pos) ==
    { << pos[1] + dx, pos[2] + dy >> : dx \in (-Extent)..Extent, dy \in (-Extent)..Extent }

\* every depth sample of the window around the position is at the far plane
AllFar(pos) == \A px \in DepthWindow(pos) : scene[px] = FarPlane

\* C20: when every depth sample of the window around the event position is
\* at the far plane _set_pivot leaves the pivot unchanged and returns False;
\* when a sample is not at the far plane it returns True.
C20_FarPlaneRetainsPivot ==
    handled.event = "_set_pivot" =>
        /\ AllFar(handled.pos) =>
              /\ style.pivot = handled.before.pivot
              /\ handled.ret = FALSE
        /\ ~AllFar(handled.pos) => handled.ret = TRUE

\* C20 witness: a pivot acquired at one position is retained by a failed
\* acquisition at another
C20_Witness ==
    /\ handled.event = "_set_pivot"
    /\ AllFar(handled.pos)
    /\ handled.ret = FALSE
    /\ style.pivot # NewStyle.pivot
    /\ style.pivot = handled.before.pivot

\* the handler of the last event made no pivot acquisition
NotAcquired == ~handled.called /\ style.pivot = handled.before.pivot

MarkerHidden == handled.before._pivot_sphere_visible /\ ~style._pivot_sphere_visible

\* C19: the marker sphere is hidden only when all buttons are released: no
\* event handler hides it while the left or the right button is held.
C19_MarkerHiddenOnlyWhenReleased ==
    MarkerHidden => (~style.left_down /\ ~style.right_down)

\* the window sample the last acquisition has taken the pivot from, by its
\* row and column in the window
SelectedSample ==
    << style.pivot[1] - handled.pos[1] + Extent, style.pivot[2] - handled.pos[2] + Extent >>

\* the stated metric of a window sample: its depth-buffer value times the
\* squared screen distance to the window centre plus the bias of 1 + 100
StatedMetric(depth, idx) ==
    depth * ((idx[1] - Extent) * (idx[1] - Extent) + (idx[2] - Extent) * (idx[2] - Extent)
             + 1 + 100)

\* C21: among the window samples that are not at the far plane _set_pivot
\* selects the one minimizing depth_value * (squared screen distance to the
\* window centre + bias), depth_value being the sample's depth-buffer value.
C21_SelectsLeastStatedMetric ==
    (handled.event = "_set_pivot" /\ handled.ret) =>
        \A n \in NonZero(scene, handled.pos) :
            StatedMetric(style.pivot[3], SelectedSample)
                <= StatedMetric(Data(scene, handled.pos, WindowIndices[n]) + FarPlane,
                                WindowIndices[n])

\* the squared distance of the camera of a style to a world point, in the
\* camera's units
DistSq(st, p) ==
    LET d == Minus(InFine(p), st.camera.position)
    IN d[1] * d[1] + d[2] * d[2] + d[3] * d[3]

IsWheelEvent == handled.event \in { "MouseWheelForwardEvent", "MouseWheelBackwardEvent" }

\* -1 for a forward, 1 for a backward wheel event
WheelSign == IF handled.event = "MouseWheelForwardEvent" THEN -1 ELSE 1

\* the wheel handler has moved the camera by (pivot - position) * delta * -4,
\* with delta = motion factor * sign * 0.005 * wheel motion factor
StatedDisplacement ==
    LET move == Minus(InFine(style.pivot), handled.before.camera.position)
        by == Minus(style.camera.position, handled.before.camera.position)
        factor == style.motion_factor * WheelSign * 5 * style.wheel_factor * (-4)
    IN /\ \A i \in 1..3 : by[i] * 1000 = move[i] * factor
       /\ Minus(style.camera.focal_point, handled.before.camera.focal_point) = by

\* the wheel handler has acquired a pivot at the pointer position, and has
\* left the camera alone when the acquisition failed
WheelAcquires ==
    /\ handled.called
    /\ handled.ret = ~AllFar(handled.pos)
    /\ handled.ret => style.pivot[3] \in { scene[px] : px \in DepthWindow(handled.pos) }
    /\ ~handled.ret => style.camera = handled.before.camera

\* C22 as stated: every wheel event re-acquires the pivot at the pointer
\* position; when the acquisition succeeds with a perspective camera a
\* forward wheel strictly decreases the camera-to-pivot distance and a
\* backward wheel strictly increases it, the displacement being (pivot -
\* camera position) * delta * -4; when it fails the camera position and the
\* focal point are unchanged.
C22_WheelDolly ==
    (IsWheelEvent /\ ~style.camera.parallel) =>
        /\ WheelAcquires
        /\ handled.ret =>
              /\ StatedDisplacement
              /\ WheelSign = -1 => DistSq(style, style.pivot) < DistSq(handled.before, style.pivot)
              /\ WheelSign = 1 => DistSq(style, style.pivot) > DistSq(handled.before, style.pivot)

\* 0.02 * motion factor * wheel motion factor, in hundredths: the fraction
\* of the way to the pivot a wheel step moves the camera by
StepFraction == 2 * style.motion_factor * style.wheel_factor

\* C22 amended: the forward wheel strictly decreases the distance when the
\* step is more than nothing and less than twice the way to the pivot, the
\* backward wheel strictly increases it when the step is more than nothing.
C22_WheelDollyWithinReach ==
    (IsWheelEvent /\ ~style.camera.parallel) =>
        /\ WheelAcquires
        /\ handled.ret =>
              /\ StatedDisplacement
              /\ (WheelSign = -1 /\ 0 < StepFraction /\ StepFraction < 200) =>
                    DistSq(style, style.pivot) < DistSq(handled.before, style.pivot)
              /\ (WheelSign = 1 /\ 0 < StepFraction) =>
                    DistSq(style, style.pivot) > DistSq(handled.before, style.pivot)

\* C22 witness: two forward wheel steps of the default motion factors, each
\* a fifth of the way to the pivot acquired
C22_Witness ==
    /\ handled.event = "MouseWheelForwardEvent"
    /\ handled.ret
    /\ ~style.camera.parallel
    /\ StepFraction = 20
    /\ style.dollies = 2
    /\ DistSq(style, style.pivot) < DistSq(handled.before, style.pivot)

IsPressEvent ==
    handled.event \in { "LeftButtonPressEvent", "RightButtonPressEvent",
                        "MiddleButtonPressEvent" }

\* the manipulation state the base class enters on a button press
PressState ==
    CASE handled.event = "LeftButtonPressEvent" ->
             (IF "shift" \in handled.mods
              THEN (IF "ctrl" \in handled.mods THEN 4 ELSE 2)
              ELSE (IF "ctrl" \in handled.mods THEN 3 ELSE 1))
      [] handled.event = "RightButtonPressEvent" -> 2
      [] handled.event = "MiddleButtonPressEvent" -> 4

\* the last handler has made an acquisition that failed
FailedAcquisition == handled.called /\ ~handled.ret

\* a failed acquisition is no error and retains the pivot; on a press the
\* marker is shown at the retained pivot and the manipulation starts as it
\* starts after a successful acquisition, so that the moves that follow
\* work with the retained pivot
StalePivotOnPress ==
    FailedAcquisition =>
        /\ ~handled.raised
        /\ style.pivot = handled.before.pivot
        /\ IsPressEvent =>
              /\ style._pivot_sphere_visible
              /\ style.sphere_position = handled.before.pivot
              /\ handled.before.state = 0 => style.state = PressState

\* C23 as stated: a failed acquisition is not an error and every
\* pivot-relative operation proceeds with the stored pivot: after a failed
\* acquisition on a press the marker is shown at the stale pivot, and a
\* wheel event whose acquisition fails still dollies the camera relative to
\* the stale pivot.
C23_StalePivotStillUsed ==
    /\ StalePivotOnPress
    /\ (FailedAcquisition /\ IsWheelEvent) => style.routine = "_dolly_camera"

\* C23 amended: a wheel event whose acquisition fails does nothing: no
\* dolly routine runs and camera and manipulation state stay as they were.
C23_StalePivotUsedByPresses ==
    /\ StalePivotOnPress
    /\ (FailedAcquisition /\ IsWheelEvent) =>
          /\ style.routine = ""
          /\ style.camera = handled.before.camera
          /\ style.state = handled.before.state

\* C23 witness: a press whose acquisition fails after an earlier one has
\* succeeded shows the marker at the pivot of the earlier one
C23_Witness ==
    /\ IsPressEvent
    /\ FailedAcquisition
    /\ style.pivot # NewStyle.pivot
    /\ style._pivot_sphere_visible
    /\ ~handled.before._pivot_sphere_visible
    /\ style.sphere_position = style.pivot

\* C24: after construction a character event is handled by the custom
\* dispatcher: 'f' acquires a pivot at the event position, flies to it and
\* then hides the marker; 'r' resets the camera of the current renderer; 'p'
\* runs the pick callback; any other key leaves the pivot and the marker's
\* visibility unchanged.
C24_CharDispatch ==
    handled.event = "CharEvent" =>
        CASE handled.key = "f" ->
                 /\ handled.called
                 /\ style.pivot = _set_pivot(handled.before, scene, handled.pos).st.pivot
                 /\ style.routine = "FlyTo"
                 /\ ~style._pivot_sphere_visible
          [] handled.key = "r" -> style.routine = "_reset_camera"
          [] handled.key = "p" -> style.routine = "_pick"
          [] OTHER ->
                 /\ style.pivot = handled.before.pivot
                 /\ style._pivot_sphere_visible = handled.before._pivot_sphere_visible

\* C27: the handling of a pointer move never changes the pivot: in every
\* manipulation state (Idle, Rotating, Panning, Dollying, Spinning) a mouse
\* move leaves the pivot position and the left and right held flags as they
\* were.
C27_MoveKeepsPivot ==
    handled.event = "MouseMoveEvent" =>
        /\ handled.before.state \in 0..4
        /\ ~handled.called
        /\ style.pivot = handled.before.pivot
        /\ style.left_down = handled.before.left_down
        /\ style.right_down = handled.before.right_down

\* C27 witness: a move while Spinning, with a pivot acquired by the press,
\* has run the spin routine and left the pivot there
C27_Witness ==
    /\ handled.event = "MouseMoveEvent"
    /\ handled.before.state = 3
    /\ style.routine = "_spin"
    /\ style.left_down
    /\ style.pivot # NewStyle.pivot
    /\ style.pivot = handled.before.pivot

\* the acquisition of the last handler was made at the event position: it
\* has failed exactly when the depth window around that position is all far
\* plane, and the depth of a new pivot is one of that window
AcquiredAtEventPosition ==
    /\ handled.called
    /\ handled.ret = ~AllFar(handled.pos)
    /\ handled.ret => style.pivot[3] \in { scene[px] : px \in DepthWindow(handled.pos) }
    /\ ~handled.ret => style.pivot = handled.before.pivot

LockedOut ==
    \/ handled.event = "LeftButtonPressEvent" /\ handled.before.right_down
    \/ handled.event = "RightButtonPressEvent" /\ handled.before.left_down

Installed(b) == ImportName[b] \in loader.packages

ForegroundWaits ==
    (~host.background /\ host.main = "returned") =>
        (host.loop = "terminated" /\ host.window = "closed")

\* show in the background has returned with the host loop started on the
\* worker thread, wherever that loop stands; the foreground loop runs on the
\* calling thread
BackgroundReturns ==
    /\ (host.background /\ host.main # "idle") =>
          (host.main = "returned" /\ host.thread = "worker" /\ host.loop # "none")
    /\ (~host.background /\ host.main # "idle") => host.thread = "main"

\* the loop terminates only with the close-requested flag set, and renders
\* no frame after it has read the flag as set
LoopUntilClose ==
    /\ host.loop = "terminated" => host.should_close
    /\ host.late = 0

EnteredBy == [ Left |-> 1, Right |-> 2, Middle |-> 4 ]

\* the routine a pointer move is stated to run in a state
StatedRoutine(state) ==
    CASE state = 1 -> "_rotate"
      [] state = 2 -> "_pan"
      [] state = 3 -> "_spin"
      [] state = 4 -> "_dolly"
      [] OTHER -> "OnMouseMove"

\* C32: from Idle and with no modifier keys a left press enters Rotating, a
\* right press Panning and a middle press Dollying; the release of the
\* button, arriving in the state its press has entered, returns the
\* controller to Idle; and a pointer move runs _rotate, _pan, _spin or _dolly
\* exactly in the states Rotating, Panning, Spinning and Dollying and the
\* base handler in every other state.
C32_PressReleaseMoveStates ==
    /\ \A b \in ButtonSet :
          /\ (handled.event = b \o "ButtonPressEvent" /\ handled.before.state = 0
                 /\ handled.mods = {})
                => style.state = EnteredBy[b]
          /\ (handled.event = b \o "ButtonReleaseEvent"
                 /\ handled.before.state = EnteredBy[b])
                => style.state = 0
    /\ handled.event = "MouseMoveEvent"
          => style.routine = StatedRoutine(handled.before.state)

\* C32 witness: the right button is released while Panning, after a move
\* that has run the pan routine, and the controller is Idle again
C32_Witness ==
    /\ handled.event = "RightButtonReleaseEvent"
    /\ handled.before.state = 2
    /\ handled.before.routine = "_pan"
    /\ style.state = 0

\* ------------------------------------------------------------------------
\* Properties of the acquired position
\* ------------------------------------------------------------------------

\* the pixel of a window sample: the window's left edge plus the sample's
\* column, the window's bottom edge plus the sample's row
PixelOf(event_pos, idx) ==
    << event_pos[1] - Extent + idx[2], event_pos[2] - Extent + idx[1] >>

\* the sample that wins the last _set_pivot call, by row and column
Winner == WindowIndices[ArgMin(scene, handled.pos)]

\* C33: the display position _set_pivot unprojects is the pixel of the
\* winning depth sample, x being the window's left edge plus the sample's
\* column and y its bottom edge plus the sample's row (the rectangle is read
\* row by row, x varying fastest), and the depth is that sample's
\* depth-buffer value.
C33_UnprojectsWinningSample ==
    (handled.event = "_set_pivot" /\ handled.ret) =>
        LET px == PixelOf(handled.pos, Winner)
        IN style.pivot = DisplayToWorld(px[1], px[2], scene[px])

\* the squared screen distance of a window sample to the event position
ScreenDistSq(idx) ==
    (idx[1] - Extent) * (idx[1] - Extent) + (idx[2] - Extent) * (idx[2] - Extent)

\* C34: among the samples that are not at the far plane and have the same
\* depth, _set_pivot chooses the one closest to the event position: no
\* sample of the winner's depth is closer to the event position than the
\* winner.
C34_ClosestAmongEqualDepth ==
    (handled.event = "_set_pivot" /\ handled.ret) =>
        \A n \in NonZero(scene, handled.pos) :
            Data(scene, handled.pos, WindowIndices[n]) = Data(scene, handled.pos, Winner)
                => ScreenDistSq(Winner) <= ScreenDistSq(WindowIndices[n])

\* ------------------------------------------------------------------------
\* Properties of the camera's moves
\* ------------------------------------------------------------------------

\* the vector from the camera position to the focal point
ViewVector(st) == Minus(st.camera.focal_point, st.camera.position)

\* C35: pan, drag dolly and wheel dolly move the camera position and the
\* focal point by the same offset: no pointer move and no wheel event
\* changes the vector from the camera position to the focal point.
C35_PanAndDollyKeepViewVector ==
    (handled.event = "MouseMoveEvent" \/ IsWheelEvent) =>
        /\ ViewVector(style) = ViewVector(handled.before)
        /\ Minus(style.camera.position, handled.before.camera.position)
              = Minus(style.camera.focal_point, handled.before.camera.focal_point)

\* C35 witness: a pan step that follows a dolly step: the camera has left
\* its first depth before and moves sideways now
C35_Witness ==
    /\ handled.event = "MouseMoveEvent"
    /\ style.routine = "_pan"
    /\ style.dollies = 2
    /\ handled.before.camera.position[3] # NewCamera(FALSE, 90).position[3]
    /\ style.camera.position[1] # handled.before.camera.position[1]
    /\ style.camera.position[3] = handled.before.camera.position[3]

\* C36: a wheel event never leaves the controller Dollying: with a
\* perspective and with a parallel camera, a wheel event that finds the
\* controller Idle leaves it Idle, whether the acquisition has succeeded or
\* failed, and its handler ends without an exception.
C36_WheelEndsIdle ==
    (IsWheelEvent /\ handled.before.state = 0) =>
        /\ style.state = 0
        /\ ~handled.raised

\* ------------------------------------------------------------------------
\* Properties of ImguiPlotter.close
\* ------------------------------------------------------------------------

\* C39: close() invokes the before-close callback that show has
\* registered at most once: the first close() after show calls it once and
\* clears it, and no later close() calls it again.
C39_CallbackCalledOnce ==
    /\ host.called <= 1
    /\ (host.closes >= 1 /\ host.registered # "None") =>
          (host.called = 1 /\ host._before_close_callback = "None")

====
